---- MODULE Spec2Model ----
(***************************************************************************)
(* A model of the VS Code Commander extension: the mutation ledger and the *)
(* undo command (extension.ts), the UpdateSettings and RunCommand tools    *)
(* (tools/updateSettings.tsx, tools/runCommands.tsx), the configuration    *)
(* index (configurationSearch) and the orchestration loop of the chat      *)
(* participant (chatParticipant.tsx).                                      *)
(*                                                                         *)
(* The specifications share the variables below; each one leaves the       *)
(* variables it does not use untouched.                                    *)
(*   Spec        one user turn at a time: ledger reset, tool invocations,  *)
(*               undo-button decision, undo command.                       *)
(*   SpecUpdate  successive invocations of UpdateSettings.                 *)
(*   SpecSearch  calls of Configurations.search.                           *)
(*   SpecRun     invocations of RunCommand.                                *)
(*   SpecLoop    the while(true) loop of the chat participant handler.     *)
(*   SpecText, SpecBuild, SpecValidate, SpecHistory, SpecOverlap,          *)
(*   SpecResolve, SpecSettings, SpecCommands: see the sections below.      *)
(***************************************************************************)
EXTENDS Naturals, Integers, Sequences, FiniteSets, TLC

(***************************************************************************)
(* Bounds of the model.                                                    *)
(***************************************************************************)
MaxTurns == 2      \* user turns in a behaviour of Spec
MaxLedger == 2     \* entries of the updatedSettings ledger in Spec
MaxRan == 1        \* entries of the ranCommands ledger in Spec and SpecRun
MaxCalls == 2      \* UpdateSettings invocations in a behaviour of SpecUpdate
MaxLimit == 3      \* the largest limit passed to Configurations.search
MaxRounds == 2     \* tool-call rounds in a behaviour of SpecLoop
MaxParts == 2      \* tool-call parts in one model response
MaxText == 6       \* atoms of text streamed in one response (SpecText)
MaxKeys == 2       \* keys of one mapping handed to prepareToolInvocation
MaxVersions == 2   \* change notifications on the source documents (SpecBuild)
MaxBuilds == 3     \* index builds started in a behaviour of SpecBuild
MaxHistory == 8    \* request and response turns of context.history (SpecHistory)
MaxResolves == 2   \* resolveReferences calls in a behaviour of SpecResolve
MaxStack == 8      \* nested calls of checkAndReplaceRef the call stack holds
MaxEnum == 2       \* enum values, and enum descriptions, of a setting (SpecSettings)
MaxCommands == 3   \* entries of the command-name and description lists (SpecCommands)

(***************************************************************************)
(* Values of settings.  A value is a JSON value; `kind` tells a primitive  *)
(* (number, string, boolean, null) from an array or object, `v` stands for *)
(* its canonical serialization.                                            *)
(***************************************************************************)
Prim(n) == [kind |-> "prim", v |-> n]
Obj(n) == [kind |-> "obj", v |-> n]
Values == {Prim(0), Prim(1), Obj(0)}

(***************************************************************************)
(* Strings.  An identifier or a keywords string is a sequence of atoms: a  *)
(* word, "." or " ".  "editor.fontSize" is <<"editor", ".", "fontSize">>.  *)
(***************************************************************************)
K_fontSize == <<"editor", ".", "fontSize">>
K_rulers == <<"editor", ".", "rulers">>
K_fold == <<"editor", ".", "fold">>
K_cursorUndo == <<"cursorUndo">>
K_setEditorLayout == <<"vscode", ".", "setEditorLayout">>
K_unknown == <<"editor", ".", "unknown">>
K_nothing == <<"nothing">>
K_empty == << >>
K_fontWords == <<"font", " ", "size">>

SettingKeys == {K_fontSize, K_rulers}
CommandKeys == {K_fold, K_cursorUndo, K_setEditorLayout}

\* JavaScript's `a !== b` where a was read from the configuration store and b
\* was parsed from the tool call's input: primitives compare by value, arrays
\* and objects compare by reference, and the two references are never the same.
StrictNotEqual(a, b) == a.kind = "obj" \/ b.kind = "obj" \/ a.v # b.v

(***************************************************************************)
(* UpdateSettings.                                                         *)
(***************************************************************************)
\* validateSettings: the entries of the mapping, in insertion order.  A batch is
\* a sequence of [key, value] with pairwise distinct keys.
RECURSIVE SeqsOver(_, _)
SeqsOver(S, n) ==
    IF n = 0 THEN {<< >>}
    ELSE LET shorter == SeqsOver(S, n - 1)
         IN shorter \cup {Append(s, x) : s \in {t \in shorter : Len(t) = n - 1}, x \in S}

DistinctKeys(b) == \A i, j \in DOMAIN b : i # j => b[i].key # b[j].key

Batches ==
    {b \in SeqsOver([key : SettingKeys, value : Values], Cardinality(SettingKeys)) :
        DistinctKeys(b)}

\* A loop that goes on with the next entry after a rejected write.
RECURSIVE UpdateLoop_continuing(_, _, _, _, _)
UpdateLoop_continuing(batch, i, failAt, t, acc) ==
    IF i > Len(batch) THEN acc
    ELSE LET key == batch[i].key
             value == batch[i].value
             oldValue == acc.store[key]
         IN IF StrictNotEqual(oldValue, value)
            THEN IF i = failAt
                 THEN UpdateLoop_continuing(batch, i + 1, failAt, t,
                        [acc EXCEPT !.failed = i])
                 ELSE UpdateLoop_continuing(batch, i + 1, failAt, t,
                        [acc EXCEPT
                           !.store = [acc.store EXCEPT ![key] = value],
                           !.writes = Append(acc.writes, [key |-> key, value |-> value]),
                           !.updates = Append(acc.updates,
                                [key |-> key, oldValue |-> oldValue, newValue |-> value]),
                           !.ledger = Append(acc.ledger,
                                [key |-> key, oldValue |-> oldValue, newValue |-> value,
                                 turn |-> t])])
            ELSE UpdateLoop_continuing(batch, i + 1, failAt, t,
                        [acc EXCEPT !.unchanged = Append(acc.unchanged, key)])

\* The loop of UpdateSettings._invoke from entry i on.  `failAt` is the entry
\* whose configuration write the host rejects (0: none).  `acc` carries the
\* store, the ledger, the local `updates` and `unchanged` lists and the writes
\* the host persisted.
RECURSIVE UpdateLoop(_, _, _, _, _)
UpdateLoop(batch, i, failAt, t, acc) ==
    IF i > Len(batch) THEN acc
    ELSE LET key == batch[i].key
             value == batch[i].value
             oldValue == acc.store[key]
         IN IF StrictNotEqual(oldValue, value)
            THEN IF i = failAt
                 THEN [acc EXCEPT !.failed = i]
                 ELSE UpdateLoop(batch, i + 1, failAt, t,
                        [acc EXCEPT
                           !.store = [acc.store EXCEPT ![key] = value],
                           !.writes = Append(acc.writes, [key |-> key, value |-> value]),
                           !.updates = Append(acc.updates,
                                [key |-> key, oldValue |-> oldValue, newValue |-> value]),
                           !.ledger = Append(acc.ledger,
                                [key |-> key, oldValue |-> oldValue, newValue |-> value,
                                 turn |-> t])])
            ELSE UpdateLoop(batch, i + 1, failAt, t,
                        [acc EXCEPT !.unchanged = Append(acc.unchanged, key)])

SeqKeys(s) == [i \in DOMAIN s |-> s[i].key]

\* The result UpdateSettings._invoke returns: what its text names.
UpdateResult(acc, batch) ==
    IF acc.failed # 0
    THEN [kind |-> "error", updates |-> << >>, unchanged |-> << >>,
          failedKey |-> batch[acc.failed].key, failedValue |-> batch[acc.failed].value]
    ELSE [kind |-> "success", updates |-> acc.updates, unchanged |-> acc.unchanged,
          failedKey |-> K_empty, failedValue |-> Prim(0)]

PlainResult(kind) ==
    [kind |-> kind, updates |-> << >>, unchanged |-> << >>,
     failedKey |-> K_empty, failedValue |-> Prim(0)]

\* An _invoke without the `if (token.isCancellationRequested)` return.
UpdateSettings_invoke_ignoringToken(st, ledger, batch, cancelled, failAt, t) ==
    LET acc0 == [store |-> st, ledger |-> ledger, updates |-> << >>,
                 unchanged |-> << >>, writes |-> << >>, failed |-> 0]
    IN IF Len(batch) = 0
       THEN [acc |-> acc0, result |-> PlainResult("noop")]
       ELSE LET acc == UpdateLoop(batch, 1, failAt, t, acc0)
            IN [acc |-> acc, result |-> UpdateResult(acc, batch)]

\* UpdateSettings._invoke as a function of the store and ledger it finds.
UpdateSettings_invoke(st, ledger, batch, cancelled, failAt, t) ==
    LET acc0 == [store |-> st, ledger |-> ledger, updates |-> << >>,
                 unchanged |-> << >>, writes |-> << >>, failed |-> 0]
    IN IF Len(batch) = 0
       THEN [acc |-> acc0, result |-> PlainResult("noop")]
       ELSE IF cancelled
            THEN [acc |-> acc0, result |-> PlainResult("cancelled")]
            ELSE LET acc == UpdateLoop(batch, 1, failAt, t, acc0)
                 IN [acc |-> acc, result |-> UpdateResult(acc, batch)]

(***************************************************************************)
(* The configuration index (Configurations, MiniSearch).                   *)
(***************************************************************************)
IsSeparator(a) == a \in {".", " "}

\* MiniSearch's processTerm: lower-casing.
Lower(w) ==
    CASE w = "fontSize" -> "fontsize"
      [] w = "cursorUndo" -> "cursorundo"
      [] w = "setEditorLayout" -> "seteditorlayout"
      [] OTHER -> w

\* MiniSearch's tokenizer followed by processTerm: the string is split at
\* spaces and punctuation and every piece is lower-cased.
Terms(str) == {Lower(str[i]) : i \in {j \in DOMAIN str : ~IsSeparator(str[j])}}

\* t is a prefix of the term u (MiniSearch's `prefix: true`).
IsTermPrefix(t, u) ==
    t = u \/ <<t, u>> \in {<<"font", "fontsize">>, <<"cursor", "cursorundo">>}

\* The descriptions of the entries the schema documents hold.
Description(key) ==
    CASE key = K_fontSize -> <<"font", " ", "size">>
      [] key = K_rulers -> <<"rulers">>
      [] key = K_fold -> <<"fold">>
      [] key = K_cursorUndo -> <<"cursor", " ", "undo">>
      [] key = K_setEditorLayout -> <<"editor", " ", "layout">>
      [] OTHER -> << >>

\* A searchable: what getSearchableSettings / getSearchableCommands push.
Searchable(type, key) == [type |-> type, key |-> key, description |-> Description(key)]

\* The index that holds the settings S and the commands C.
IndexOf(S, C) == {Searchable("setting", k) : k \in S} \cup {Searchable("command", k) : k \in C}

FullIndex == IndexOf(SettingKeys, CommandKeys)

\* miniSearch.search(keywords, { fields: ['key'], prefix: true,
\*                               filter: result => result.key === keywords })
ExactMatches(idx, keywords) ==
    {d \in idx : /\ \E t \in Terms(keywords), u \in Terms(d.key) : IsTermPrefix(t, u)
                 /\ d.key = keywords}

\* miniSearch.search(keywords, { fields: ['key', 'description'] })
RelevanceMatches(idx, keywords) ==
    {d \in idx : \E t \in Terms(keywords) : t \in Terms(d.key) \cup Terms(d.description)}

\* A search that skips the exact step and ranks the relevance matches.
SearchHits_relevanceOnly(idx, keywords) == RelevanceMatches(idx, keywords)

\* The documents Configurations.search ranks: the exact matches when there are
\* any, the relevance matches otherwise.
SearchHits(idx, keywords) ==
    LET exact == ExactMatches(idx, keywords)
    IN IF exact # {} THEN exact ELSE RelevanceMatches(idx, keywords)

\* The first n documents of every order in which the documents of S can be
\* ranked: what `results.slice(0, n)` can be for the hits S.
RECURSIVE TopRanked(_, _)
TopRanked(S, n) ==
    IF S = {} \/ n = 0 THEN {<< >>}
    ELSE UNION {{<<d>> \o r : r \in TopRanked(S \ {d}, n - 1)} : d \in S}

\* Configurations.search(keywords, limit).  MiniSearch ranks by a relevance
\* score the model does not compute: every ranking of the hits is possible.
Search(idx, keywords, limit) == TopRanked(SearchHits(idx, keywords), limit)

(***************************************************************************)
(* RunCommand.                                                             *)
(***************************************************************************)
\* The keys the model passes to RunCommand: commands, a setting key, keys that
\* are in no catalog, the empty key.
RunKeys == CommandKeys \cup {K_fontSize, K_unknown, K_nothing, K_empty}

\* The keys it passes within the turns of Spec.
TurnRunKeys == {K_fold, K_nothing}

\* `const commandsWithComplexArguments = new Set(['vscode.setEditorLayout'])`
commandsWithComplexArguments == {K_setEditorLayout}

K_focusActiveEditorGroup == <<"workbench", ".", "action", ".", "focusActiveEditorGroup">>

\* Words that start with the given word (String.prototype.startsWith on a word).
WordStartsWith(w, p) ==
    w = p \/ <<w, p>> \in {<<"cursorUndo", "cursor">>, <<"editorFoo", "editor">>}

\* A check that knows the 'editor.' prefix only.
requiresEditorFocus_dottedOnly(commandId) ==
    Len(commandId) >= 2 /\ commandId[1] = "editor" /\ commandId[2] = "."

\* RunCommand.requiresEditorFocus
requiresEditorFocus(commandId) ==
    LET hasDot == \E i \in DOMAIN commandId : commandId[i] = "."
    IN \/ (Len(commandId) >= 2 /\ commandId[1] = "editor" /\ commandId[2] = ".")
       \/ (Len(commandId) >= 1 /\ WordStartsWith(commandId[1], "cursor") /\ ~hasDot)
       \/ (Len(commandId) >= 1 /\ WordStartsWith(commandId[1], "editor") /\ ~hasDot)

\* RunCommand.parseArguments: an error message comes back only from the
\* validation of a command with complex arguments that was given arguments.
ParseCanFail(command, hasArgs) == hasArgs /\ command.key \in commandsWithComplexArguments

\* What the collaborators of one RunCommand invocation do: nothing goes wrong,
\* the argument validation asks for new arguments, the host's executeCommand
\* throws for the focus command, or it throws for the command itself.
Outcomes == {"ok", "parseError", "focusThrows", "commandThrows"}

\* The outcomes the host allows for the entry the lookup returned: it has no
\* command by the name of a setting, so executeCommand throws for one.
HostOutcomes(commands) ==
    IF Len(commands) > 0 /\ commands[1].type = "setting"
    THEN {"commandThrows"} \cup
         (IF requiresEditorFocus(commands[1].key) THEN {"focusThrows"} ELSE {})
    ELSE Outcomes

\* A validation that runs on every call.
ValidationRuns_everyCall(lastPrompt, currentPrompt) == TRUE

\* RunCommand.validateComplexArguments goes past
\* `if (this._lastComplexPrompt === this.chatContext.prompt) return true`.
ValidationRuns(lastPrompt, currentPrompt) == lastPrompt # currentPrompt

\* What else can go wrong in one RunCommand invocation: the index lookup
\* rejects (`await this.init()` failed), or the model call of
\* validateArguments rejects.
Faults == {"lookupThrows", "validationThrows"}

\* An invocation that records the command before executeCommand has returned.
RunCommand_invoke_pushFirst(ledger, commandId, commands, hasArgs, cancelled, outcome, t) ==
    IF Len(commandId) = 0
    THEN [kind |-> "invalid", exec |-> << >>, ledger |-> ledger]
    ELSE IF outcome = "lookupThrows"
    THEN [kind |-> "threw", exec |-> << >>, ledger |-> ledger]
    ELSE IF Len(commands) = 0
    THEN [kind |-> "notFound", exec |-> << >>, ledger |-> ledger]
    ELSE LET command == commands[1]
             focus == IF requiresEditorFocus(command.key)
                      THEN <<K_focusActiveEditorGroup>> ELSE << >>
             pushed == Append(ledger, [key |-> command.key, arguments |-> hasArgs,
                                       turn |-> t])
         IN IF outcome = "validationThrows" /\ ParseCanFail(command, hasArgs)
            THEN [kind |-> "threw", exec |-> << >>, ledger |-> ledger]
            ELSE IF outcome = "parseError" /\ ParseCanFail(command, hasArgs)
            THEN [kind |-> IF cancelled THEN "cancelled" ELSE "argumentError",
                  exec |-> << >>, ledger |-> ledger]
            ELSE IF outcome = "focusThrows" /\ requiresEditorFocus(command.key)
            THEN [kind |-> "executionError", exec |-> focus, ledger |-> ledger]
            ELSE IF outcome = "commandThrows"
            THEN [kind |-> "executionError", exec |-> Append(focus, command.key),
                  ledger |-> pushed]
            ELSE [kind |-> "executed", exec |-> Append(focus, command.key),
                  ledger |-> pushed]

\* RunCommand.invoke.  `commands` is what configurations.search(commandId, 1)
\* returned, `cancelled` is token.isCancellationRequested.  Gives the result
\* kind ("threw": the promise of invoke rejects), the identifiers passed to
\* executeCommand, in order, and the ranCommands ledger afterwards.  The token
\* is read in validateComplexArguments only, after the validation answered.
RunCommand_invoke(ledger, commandId, commands, hasArgs, cancelled, outcome, t) ==
    IF Len(commandId) = 0
    THEN [kind |-> "invalid", exec |-> << >>, ledger |-> ledger]
    ELSE IF outcome = "lookupThrows"
    THEN [kind |-> "threw", exec |-> << >>, ledger |-> ledger]
    ELSE IF Len(commands) = 0
    THEN [kind |-> "notFound", exec |-> << >>, ledger |-> ledger]
    ELSE LET command == commands[1]
             focus == IF requiresEditorFocus(command.key)
                      THEN <<K_focusActiveEditorGroup>> ELSE << >>
         IN IF outcome = "validationThrows" /\ ParseCanFail(command, hasArgs)
            THEN [kind |-> "threw", exec |-> << >>, ledger |-> ledger]
            ELSE IF outcome = "parseError" /\ ParseCanFail(command, hasArgs)
            THEN [kind |-> IF cancelled THEN "cancelled" ELSE "argumentError",
                  exec |-> << >>, ledger |-> ledger]
            ELSE IF outcome = "focusThrows" /\ requiresEditorFocus(command.key)
            THEN [kind |-> "executionError", exec |-> focus, ledger |-> ledger]
            ELSE IF outcome = "commandThrows"
            THEN [kind |-> "executionError", exec |-> Append(focus, command.key),
                  ledger |-> ledger]
            ELSE [kind |-> "executed", exec |-> Append(focus, command.key),
                  ledger |-> Append(ledger,
                        [key |-> command.key, arguments |-> hasArgs, turn |-> t])]

\* `await this.configurations.search(options.parameters.keywords, 50)`
SearchToolLimit == 50

\* SearchConfigurations._invoke.  `searchResults` is what
\* configurations.search(keywords, 50) returns, `cancelled` is
\* token.isCancellationRequested.  Gives the result kind, whether the index
\* search was performed and the keys of the entries returned.
SearchConfigurations_invoke(keywords, searchResults, cancelled) ==
    IF Len(keywords) = 0
    THEN [kind |-> "noKeywords", searched |-> FALSE, keys |-> << >>]
    ELSE IF cancelled
    THEN [kind |-> "cancelled", searched |-> TRUE, keys |-> << >>]
    ELSE IF Len(searchResults) = 0
    THEN [kind |-> "notFound", searched |-> TRUE, keys |-> << >>]
    ELSE [kind |-> "found", searched |-> TRUE,
          keys |-> [i \in DOMAIN searchResults |-> searchResults[i].key]]

\* The settings of the catalog that are flagged `restricted`.
RestrictedSettings == {K_fontSize}

\* The keys of the mappings the model hands to UpdateSettings: settings and
\* keys that are in no catalog.
PrepareKeys == SettingKeys \cup {K_unknown, K_nothing}

\* `if (!setting || setting.type !== 'setting' || !setting.restricted) continue`
\* for `setting = (await this.configurations.search(key, 1))[0]`: the key adds
\* its lines to the confirmation message.
AsksFor(lookup) ==
    /\ Len(lookup) > 0
    /\ lookup[1].type = "setting"
    /\ lookup[1].key \in RestrictedSettings

\* UpdateSettings.prepareToolInvocation for the keys of the mapping, in order.
\* lookups[i] is what configurations.search(keys[i], 1) returned.  Gives
\* whether an invocation was prepared, whether it carries confirmation
\* messages, and the settings the confirmation message describes.
UpdateSettings_prepareToolInvocation(keys, lookups) ==
    IF Len(keys) = 0
    THEN [prepared |-> FALSE, confirmation |-> FALSE, described |-> {}]
    ELSE LET asking == {i \in DOMAIN keys : AsksFor(lookups[i])}
         IN [prepared |-> TRUE, confirmation |-> asking # {},
             described |-> {lookups[i][1].key : i \in asking}]

(***************************************************************************)
(* The undo command and the undo-button decision.                          *)
(***************************************************************************)
\* The undo command: `for (const {key, oldValue} of updatedSettings) update(...)`,
\* from entry i on.  `failAt` is the entry whose write the host rejects (0: none);
\* the rejection leaves the loop.
RECURSIVE UndoLoop(_, _, _, _)
UndoLoop(ledger, i, failAt, st) ==
    IF i > Len(ledger) \/ i = failAt THEN st
    ELSE UndoLoop(ledger, i + 1, failAt,
                  [st EXCEPT ![ledger[i].key] = ledger[i].oldValue])

\* A button decision that looks at the settings ledger only.
ShowUndoButton_ignoringCommands(us, rc) == Len(us) > 0

\* `if (updatedSettings.length && !ranCommands.length)`
ShowUndoButton(us, rc) == Len(us) > 0 /\ Len(rc) = 0

(***************************************************************************)
(* The chat participant's request loop and its prompt elements.            *)
(***************************************************************************)
\* The names the model puts into tool-call parts: a tool of this extension,
\* a tool another extension registered, a name nobody registered.
ToolNames == {"commander", "foreign", "unregistered"}

\* vscode.lm.tools when the turn starts.
RegisteredTools == {"commander", "foreign"}

\* The registered tools whose tags include 'commander': the tools the handler
\* passes to model.sendRequest.
OfferedTools(tools) == tools \cap {"commander"}

\* What vscode.lm.invokeTool does for one call: it returns a result with a
\* prompt-tsx part, a result without one, or it rejects.
ToolOutcomes == {"tsx", "noTsx", "throws"}

\* What it does for a call of the named tool: the tools of this extension
\* build their results with a prompt-tsx part.
OutcomesOf(name) == IF name = "commander" THEN {"tsx", "throws"} ELSE ToolOutcomes

\* The tool-call parts one model response streams: here a response names a
\* tool at most once.
Responses ==
    {p \in SeqsOver(ToolNames, MaxParts) : \A i, j \in DOMAIN p : i # j => p[i] # p[j]}

NoMessage == [role |-> "none"]

ToolMessage(callId, content, meta) ==
    [role |-> "tool", toolCallId |-> callId, content |-> content, meta |-> meta]

AssistantMessage(round) ==
    [role |-> "assistant", toolCalls |-> [i \in DOMAIN round |-> round[i].callId]]

UserMessage(text) == [role |-> "user", content |-> text]

\* getTsxDataFromToolsResult(toolResult) found a prompt-tsx part.
HasTsxData(toolResult) == toolResult = "tsx"

\* A ToolCallElement that renders nothing when the tool is not registered.
ToolCallElement_silentWhenMissing(toolCall, tools, results, outcome) ==
    LET cached == toolCall.callId \in DOMAIN results
        toolResult == IF cached THEN results[toolCall.callId] ELSE outcome
    IN IF toolCall.name \notin tools
       THEN [message |-> NoMessage, invoked |-> FALSE, threw |-> FALSE]
       ELSE IF toolResult = "throws"
       THEN [message |-> NoMessage, invoked |-> TRUE, threw |-> TRUE]
       ELSE IF ~HasTsxData(toolResult)
       THEN [message |-> ToolMessage(toolCall.callId, "noTsx", "none"),
             invoked |-> ~cached, threw |-> FALSE]
       ELSE [message |-> ToolMessage(toolCall.callId, "result", toolResult),
             invoked |-> ~cached, threw |-> FALSE]

\* ToolCallElement.render for one tool call.  `results` is toolCallResults as
\* the running renderPrompt was given it, `outcome` what invokeTool does if it
\* is called.  Gives the message rendered (its `meta` is the result a
\* ToolResultMetadata carries, "none" without one), whether invokeTool was
\* called and whether it rejected.
ToolCallElement_render(toolCall, tools, results, outcome) ==
    LET cached == toolCall.callId \in DOMAIN results
        toolResult == IF cached THEN results[toolCall.callId] ELSE outcome
    IN IF toolCall.name \notin tools
       THEN [message |-> ToolMessage(toolCall.callId, "Tool not found", "none"),
             invoked |-> FALSE, threw |-> FALSE]
       ELSE IF toolResult = "throws"
       THEN [message |-> NoMessage, invoked |-> TRUE, threw |-> TRUE]
       ELSE IF ~HasTsxData(toolResult)
       THEN [message |-> ToolMessage(toolCall.callId, "noTsx", "none"),
             invoked |-> ~cached, threw |-> FALSE]
       ELSE [message |-> ToolMessage(toolCall.callId, "result", toolResult),
             invoked |-> ~cached, threw |-> FALSE]

\* The tool calls of the rounds, in the order ToolCalls.render maps them.
RECURSIVE Flat(_)
Flat(rounds) ==
    IF rounds = << >> THEN << >> ELSE Head(rounds) \o Flat(Tail(rounds))

IsMessage(m) == m.role # "none"

\* ToolCalls.renderOneToolCallRound for the rounds from r on: per round a chunk
\* of the assistant message that lists the calls and the messages their
\* ToolCallElements rendered.  `done` is the number of calls of earlier rounds.
RECURSIVE Chunks(_, _, _, _)
Chunks(rounds, elements, r, done) ==
    IF r > Len(rounds) THEN << >>
    ELSE <<AssistantMessage(rounds[r])>>
         \o SelectSeq(SubSeq(elements, done + 1, done + Len(rounds[r])), IsMessage)
         \o Chunks(rounds, elements, r + 1, done + Len(rounds[r]))

\* CommanderPrompt.render, ToolCalls.render: the instructions, the user's
\* prompt, the chunks of the rounds and, when there are rounds, the closing
\* user message.
PromptMessages(rounds, elements) ==
    <<UserMessage("instructions"), UserMessage("prompt")>>
    \o Chunks(rounds, elements, 1, 0)
    \o (IF rounds = << >> THEN << >> ELSE <<UserMessage("above")>>)

\* `toolResultMetadata.forEach(meta => toolCallResults[meta.toolCallId] = meta.result)`
StoreResults(results, elements) ==
    LET metas == {i \in DOMAIN elements :
                     elements[i].role = "tool" /\ elements[i].meta # "none"}
        ids == {elements[i].toolCallId : i \in metas}
    IN [id \in DOMAIN results \cup ids |->
          IF id \in ids
          THEN elements[CHOOSE i \in metas :
                           /\ elements[i].toolCallId = id
                           /\ \A j \in metas : elements[j].toolCallId = id => j <= i].meta
          ELSE results[id]]

\* One more invokeTool call counted for the call id.
Counted(counts, id) ==
    [i \in DOMAIN counts \cup {id} |->
        IF i = id THEN (IF id \in DOMAIN counts THEN counts[id] ELSE 0) + 1
        ELSE counts[i]]

\* A processResponseStream that keeps every tool-call part.
ProcessResponseStream_keepingAll(parts, tools, firstId) ==
    [i \in DOMAIN parts |-> [name |-> parts[i], callId |-> firstId + i - 1]]

\* processResponseStream: the tool-call parts whose name vscode.lm.tools
\* holds, in stream order.  The model numbers its calls from firstId on.
ProcessResponseStream(parts, tools, firstId) ==
    LET calls == [i \in DOMAIN parts |-> [name |-> parts[i], callId |-> firstId + i - 1]]
        IsKnown(c) == c.name \in tools
    IN SelectSeq(calls, IsKnown)

(***************************************************************************)
(* Response post-processing: the text branch of processResponseStream.     *)
(* A text is a sequence of atoms: "tick" (the backtick), " " (whitespace), *)
(* "S" (the characters of a known setting key), "C" (those of a known      *)
(* command key), "L" (a run of FlushLimit word characters).                *)
(***************************************************************************)
\* `buffer.length > 80`
FlushLimit == 80

Atoms == {"tick", " ", "S", "C", "L"}

\* The number of characters an atom stands for; below the limit only the
\* long run matters, every other atom counts as one character.
AtomLength(a) == IF a = "L" THEN FlushLimit ELSE 1

\* String.prototype.length
RECURSIVE StrLength(_)
StrLength(str) == IF str = << >> THEN 0 ELSE AtomLength(Head(str)) + StrLength(Tail(str))

\* buffer.lastIndexOf(backtick), with positions counted from 1 and 0 for -1.
LastBacktickIndex(str) ==
    IF \E i \in DOMAIN str : str[i] = "tick"
    THEN CHOOSE i \in DOMAIN str : str[i] = "tick" /\ \A j \in DOMAIN str : str[j] = "tick" => j <= i
    ELSE 0

\* backtickPattern (a backtick, one or more characters that are neither
\* whitespace nor backtick, a backtick) matches from position i to position j.
MatchesFromTo(str, i, j) ==
    /\ i \in DOMAIN str /\ j \in DOMAIN str /\ j > i + 1
    /\ str[i] = "tick" /\ str[j] = "tick"
    /\ \A k \in (i + 1) .. (j - 1) : str[k] \notin {"tick", " "}

\* backtickPattern.exec(buffer) with lastIndex 0: the leftmost match, as the
\* positions of its two backticks, or <<0, 0>> for null.
BacktickMatch(str) ==
    LET starts == {i \in DOMAIN str : \E j \in DOMAIN str : MatchesFromTo(str, i, j)}
    IN IF starts = {} THEN <<0, 0>>
       ELSE LET i == CHOOSE a \in starts : \A b \in starts : a <= b
            IN <<i, CHOOSE j \in DOMAIN str : MatchesFromTo(str, i, j)>>

\* Configurations.getSetting / getCommand: a direct lookup by key.
getSetting(id) == id = <<"S">>
getCommand(id) == id = <<"C">>

SettingLink == "[S](command:workbench.action.openSettings)"
CommandLink == "[C](command:workbench.action.openGlobalKeybindings)"

\* renderConfigurationId
renderConfigurationId(id) ==
    IF getSetting(id) THEN <<SettingLink>>
    ELSE IF getCommand(id) THEN <<CommandLink>>
    ELSE <<"tick">> \o id \o <<"tick">>

\* One text part of the response stream.  `st` holds the buffer, the
\* textResponse and the markdown passed to response.markdown so far.
ProcessTextPart(st, value) ==
    LET buf == st.buffer \o value
        lastBacktickIndex == LastBacktickIndex(buf)
        match == BacktickMatch(buf)
    IN IF match # <<0, 0>>
       THEN [buffer |-> << >>,
             textResponse |-> st.textResponse \o buf,
             markdown |-> st.markdown
                          \o SubSeq(buf, 1, match[1] - 1)
                          \o renderConfigurationId(SubSeq(buf, match[1] + 1, match[2] - 1))
                          \o SubSeq(buf, match[2] + 1, Len(buf))]
       ELSE IF lastBacktickIndex = 0 \/ StrLength(buf) > FlushLimit
       THEN [buffer |-> << >>,
             textResponse |-> st.textResponse \o buf,
             markdown |-> st.markdown \o buf]
       ELSE [buffer |-> SubSeq(buf, lastBacktickIndex, Len(buf)),
             textResponse |-> st.textResponse \o SubSeq(buf, 1, lastBacktickIndex - 1),
             markdown |-> st.markdown \o SubSeq(buf, 1, lastBacktickIndex - 1)]

\* The text parts of n atoms the model can stream.
Fragments(n) == [1 .. n -> Atoms]

VARIABLES
    store,            \* the host's configuration store: setting key -> value
    updatedSettings,  \* ledger: settings changed (extension.ts:15)
    ranCommands,      \* ledger: commands run (extension.ts:16)
    pc,               \* where the chat participant handler is
    turn,             \* number of the current user turn
    calls,            \* UpdateSettings invocations made so far (SpecUpdate)
    button,           \* whether response.button(Undo) was called for the turn
    preTurn,          \* the store when the current turn began
    changed,          \* keys written by UpdateSettings in the current turn
    executed,         \* commands RunCommand executed in the current turn
    erased,           \* whether the last turn start removed ledger entries
    undo,             \* outcome of the undo command
    last,             \* record of the last UpdateSettings invocation
    repeat,           \* the last invocation repeated its successful predecessor
    index,            \* the documents the MiniSearch index holds
    query,            \* the keywords of the last Configurations.search call
    limit,            \* its limit
    results,          \* what it returned
    lastRun,          \* record of the last RunCommand invocation
    loopPc,           \* where the handler's while(true) loop is
    registry,         \* names of the tools in vscode.lm.tools
    toolCallRounds,   \* the handler's toolCallRounds
    toolCallResults,  \* the handler's toolCallResults: call id -> result
    rendered,         \* what the ToolCallElements of the running renderPrompt returned
    messages,         \* the messages of the last request sent to the model
    invoked,          \* call id -> number of vscode.lm.invokeTool calls made for it
    requests,         \* number of requests sent to the model
    responses,        \* per response received: its tool-call parts and vscode.lm.tools then
    buffer,           \* processResponseStream's buffer
    textResponse,     \* its textResponse: the text recorded for history
    userText,         \* the markdown passed to response.markdown, concatenated
    streamed,         \* the text parts streamed so far, concatenated
    ended,            \* the response stream has ended
    documents,        \* version of the content of the source documents
    initPromise,      \* Configurations.initPromise: 0 (undefined) or the build it stands for
    builds,           \* the index builds started so far: phase and content version read
    miniSearch,       \* the documents the MiniSearch index holds
    waiting,          \* search calls awaiting the promise of a build
    searched,         \* the search calls that completed in the last step
    lastBuilt,        \* the build that finished last and the index it left
    prompt,           \* chatContext.prompt: the prompt of the current request
    lastComplexPrompt,\* RunCommand._lastComplexPrompt ("none": undefined)
    corrected,        \* a RunCommand call of this turn returned a correction request
    history,          \* context.history: the request and response turns before this one
    sent,             \* what History.render made of the history for the last request composed
    handlers,         \* per chat session: the handler invocation running for it (SpecOverlap)
    objects,          \* the objects of the schema document and of the resolved schemas
    frames,           \* the running calls of checkAndReplaceRef, outermost first
    resolves,         \* number of resolveReferences calls made
    overflowed,       \* whether a call ended with the call stack exhausted
    settingsSchema,   \* the settings schema document getSearchableSettings parsed last
    searchableSettings,\* what it returned
    keybindingsSchema,\* the keybindings schema document getSearchableCommands parsed last
    searchableCommands\* what it returned

vars == <<store, updatedSettings, ranCommands, pc, turn, calls, button,
          preTurn, changed, executed, erased, undo, last, repeat,
          index, query, limit, results, lastRun,
          loopPc, registry, toolCallRounds, toolCallResults, rendered, messages,
          invoked, requests, responses,
          buffer, textResponse, userText, streamed, ended,
          documents, initPromise, builds, miniSearch, waiting, searched, lastBuilt,
          prompt, lastComplexPrompt, corrected,
          history, sent,
          handlers,
          objects, frames, resolves, overflowed,
          settingsSchema, searchableSettings, keybindingsSchema, searchableCommands>>

turnVars == <<pc, turn, button, preTurn, changed, executed, erased, undo>>
updateVars == <<last, repeat>>
searchVars == <<index, query, limit, results, lastRun>>
loopVars == <<loopPc, registry, toolCallRounds, toolCallResults, rendered, messages,
              invoked, requests, responses>>
textVars == <<buffer, textResponse, userText, streamed, ended>>
buildVars == <<documents, initPromise, builds, miniSearch, waiting, searched, lastBuilt>>
validateVars == <<prompt, lastComplexPrompt, corrected>>
historyVars == <<history, sent>>
overlapVars == <<handlers>>
resolveVars == <<objects, frames, resolves, overflowed>>
catalogVars == <<settingsSchema, searchableSettings, keybindingsSchema, searchableCommands>>

NoCall == [tool |-> "none"]

\* processResponseStream's locals when it is entered.
TextAtRest ==
    /\ buffer = << >>
    /\ textResponse = << >>
    /\ userText = << >>
    /\ streamed = << >>
    /\ ended = FALSE

\* The Configurations object when its constructor has returned: `this.init()`
\* has started the first build, which has emptied the index and awaits the
\* source documents.
BuildAtRest ==
    /\ documents = 0
    /\ initPromise = 1
    /\ builds = <<[phase |-> "reading", read |-> 0]>>
    /\ miniSearch = {}
    /\ waiting = {}
    /\ searched = {}
    /\ lastBuilt = [build |-> 0]

\* RunCommand and the chat context before the first request.
ValidationAtRest ==
    /\ prompt = "none"
    /\ lastComplexPrompt = "none"
    /\ corrected = FALSE

\* A conversation without earlier turns.
HistoryAtRest ==
    /\ history = << >>
    /\ sent = [history |-> << >>, elements |-> << >>]

\* The chat sessions of the window (chat view, quick chat): each sends its
\* requests to the one participant handler.
Sessions == {1, 2}

\* A session's handler invocation: where it is, the button decision it took,
\* the ledger entries its own tools recorded, the ledgers its decision read,
\* and the ledger the undo command replayed when its button was clicked.
IdleHandler ==
    [pc |-> "idle", button |-> FALSE, own |-> << >>, ownRan |-> << >>,
     seenUpdates |-> << >>, seenRan |-> << >>, undo |-> "none", replayed |-> << >>]

\* No chat session has sent a request.
OverlapAtRest ==
    handlers = [s \in Sessions |-> IdleHandler]

\* No schema document has been parsed.
ResolveAtRest ==
    /\ objects = << >>
    /\ frames = << >>
    /\ resolves = 0
    /\ overflowed = FALSE

\* No schema document has been read.
CatalogAtRest ==
    /\ settingsSchema = NoCall
    /\ searchableSettings = NoCall
    /\ keybindingsSchema = NoCall
    /\ searchableCommands = NoCall

\* The request loop before the handler is entered.
LoopAtRest ==
    /\ loopPc = "idle"
    /\ registry = RegisteredTools
    /\ toolCallRounds = << >>
    /\ toolCallResults = << >>
    /\ rendered = << >>
    /\ messages = << >>
    /\ invoked = << >>
    /\ requests = 0
    /\ responses = << >>
    /\ TextAtRest
    /\ BuildAtRest
    /\ ValidationAtRest
    /\ HistoryAtRest
    /\ OverlapAtRest
    /\ ResolveAtRest
    /\ CatalogAtRest

(***************************************************************************)
(* Spec: one user turn at a time.                                          *)
(***************************************************************************)
Init ==
    /\ store \in [SettingKeys -> Values]
    /\ updatedSettings = << >>
    /\ ranCommands = << >>
    /\ pc = "idle"
    /\ turn = 0
    /\ calls = 0
    /\ button = FALSE
    /\ preTurn = store
    /\ changed = {}
    /\ executed = 0
    /\ erased = FALSE
    /\ undo = "none"
    /\ last = NoCall
    /\ repeat = FALSE
    /\ index = FullIndex
    /\ query = K_empty
    /\ limit = 1
    /\ results = << >>
    /\ lastRun = NoCall
    /\ LoopAtRest

\* A handler entry that leaves the ledger buffers as the last turn left them.
TurnStart_keepingLedgers ==
    /\ pc \in {"idle", "done", "undone"}
    /\ turn < MaxTurns
    /\ turn' = turn + 1
    /\ pc' = "running"
    /\ erased' = FALSE
    /\ button' = FALSE
    /\ preTurn' = store
    /\ changed' = {}
    /\ executed' = 0
    /\ undo' = "none"
    /\ UNCHANGED <<store, updatedSettings, ranCommands, calls, updateVars, searchVars, loopVars, textVars,
                   buildVars, validateVars, historyVars, overlapVars, resolveVars, catalogVars>>

\* The chat participant handler is entered: both ledger buffers are emptied.
TurnStart ==
    /\ pc \in {"idle", "done", "undone"}
    /\ turn < MaxTurns
    /\ turn' = turn + 1
    /\ pc' = "running"
    /\ erased' = (Len(updatedSettings) + Len(ranCommands) > 0)
    /\ updatedSettings' = << >>
    /\ ranCommands' = << >>
    /\ button' = FALSE
    /\ preTurn' = store
    /\ changed' = {}
    /\ executed' = 0
    /\ undo' = "none"
    /\ UNCHANGED <<store, calls, updateVars, searchVars, loopVars, textVars,
                   buildVars, validateVars, historyVars, overlapVars, resolveVars, catalogVars>>

\* The loop invokes the UpdateSettings tool.
InvokeUpdateSettings ==
    /\ pc = "running"
    /\ \E batch \in Batches, cancelled \in BOOLEAN :
       \E failAt \in 0 .. (IF cancelled THEN 0 ELSE Len(batch)) :
          /\ \E r \in {UpdateSettings_invoke(store, updatedSettings, batch, cancelled,
                                             failAt, turn)} :
                /\ (failAt # 0 => r.acc.failed = failAt)
                /\ Len(r.acc.ledger) <= MaxLedger
                /\ store' = r.acc.store
                /\ updatedSettings' = r.acc.ledger
                /\ changed' = changed \cup {r.acc.writes[i].key : i \in DOMAIN r.acc.writes}
    /\ UNCHANGED <<ranCommands, pc, turn, calls, button, preTurn, executed, erased, undo,
                   updateVars, searchVars, loopVars, textVars,
                   buildVars, validateVars, historyVars, overlapVars, resolveVars, catalogVars>>

\* The loop invokes the RunCommand tool (here always without arguments and
\* with a token that is not cancelled).
InvokeRunCommand ==
    /\ pc = "running"
    /\ \E commandId \in TurnRunKeys :
          \E commands \in Search(index, commandId, 1) :
          \E outcome \in HostOutcomes(commands) :
             \E r \in {RunCommand_invoke(ranCommands, commandId, commands, FALSE,
                                         FALSE, outcome, turn)} :
                /\ Len(r.ledger) <= MaxRan
                /\ ranCommands' = r.ledger
                /\ executed' = IF r.kind = "executed" THEN executed + 1 ELSE executed
    /\ UNCHANGED <<store, updatedSettings, pc, turn, calls, button, preTurn, changed, erased,
                   undo, updateVars, searchVars, loopVars, textVars,
                   buildVars, validateVars, historyVars, overlapVars, resolveVars, catalogVars>>

\* The model's last round requested no tool: the handler decides on the button.
TurnDone ==
    /\ pc = "running"
    /\ pc' = "done"
    /\ button' = ShowUndoButton(updatedSettings, ranCommands)
    /\ UNCHANGED <<store, updatedSettings, ranCommands, turn, calls, preTurn, changed,
                   executed, erased, undo, updateVars, searchVars, loopVars, textVars,
                   buildVars, validateVars, historyVars, overlapVars, resolveVars, catalogVars>>

\* The undo command runs.
Undo ==
    /\ pc = "done"
    /\ \E failAt \in 0 .. Len(updatedSettings) :
          /\ store' = UndoLoop(updatedSettings, 1, failAt, store)
          /\ undo' = IF failAt = 0 THEN "completed" ELSE "failed"
    /\ pc' = "undone"
    /\ UNCHANGED <<updatedSettings, ranCommands, turn, calls, button, preTurn, changed,
                   executed, erased, updateVars, searchVars, loopVars, textVars,
                   buildVars, validateVars, historyVars, overlapVars, resolveVars, catalogVars>>

Next ==
    \/ TurnStart
    \/ InvokeUpdateSettings
    \/ InvokeRunCommand
    \/ TurnDone
    \/ Undo

Spec == Init /\ [][Next]_vars

(***************************************************************************)
(* SpecUpdate: successive invocations of UpdateSettings within one turn,   *)
(* each recorded in `last`.                                                *)
(***************************************************************************)
InitUpdate ==
    /\ store \in [SettingKeys -> Values]
    /\ updatedSettings = << >>
    /\ ranCommands = << >>
    /\ pc = "running"
    /\ turn = 1
    /\ calls = 0
    /\ button = FALSE
    /\ preTurn = store
    /\ changed = {}
    /\ executed = 0
    /\ erased = FALSE
    /\ undo = "none"
    /\ last = NoCall
    /\ repeat = FALSE
    /\ index = FullIndex
    /\ query = K_empty
    /\ limit = 1
    /\ results = << >>
    /\ lastRun = NoCall
    /\ LoopAtRest

UpdateCall ==
    /\ calls < MaxCalls
    /\ \E batch \in Batches, cancelled \in BOOLEAN :
       \E failAt \in 0 .. (IF cancelled THEN 0 ELSE Len(batch)) :
          /\ \E r \in {UpdateSettings_invoke(store, updatedSettings, batch, cancelled,
                                             failAt, turn)} :
                /\ (failAt # 0 => r.acc.failed = failAt)
                /\ store' = r.acc.store
                /\ updatedSettings' = r.acc.ledger
                /\ last' = [tool |-> "updateSettings", batch |-> batch,
                            cancelled |-> cancelled,
                            storeBefore |-> store, ledgerBefore |-> updatedSettings,
                            writes |-> r.acc.writes, failed |-> r.acc.failed,
                            result |-> r.result]
                /\ repeat' = /\ last.tool = "updateSettings"
                             /\ last.batch = batch
                             /\ last.result.kind = "success"
                             /\ r.result.kind = "success"
    /\ calls' = calls + 1
    /\ UNCHANGED <<ranCommands, turnVars, searchVars, loopVars, textVars,
                   buildVars, validateVars, historyVars, overlapVars, resolveVars, catalogVars>>

NextUpdate == UpdateCall

SpecUpdate == InitUpdate /\ [][NextUpdate]_vars

(***************************************************************************)
(* SpecSearch: calls of Configurations.search on an index built from any   *)
(* catalog of settings and commands.                                       *)
(***************************************************************************)
\* The catalogs the index is built from hold a key once: the schema documents
\* list every setting and every command once and no identifier is both.
Queries == SettingKeys \cup CommandKeys \cup {K_unknown, K_nothing, K_empty, K_fontWords}

InitSearch ==
    /\ store = [k \in SettingKeys |-> Prim(0)]
    /\ updatedSettings = << >>
    /\ ranCommands = << >>
    /\ pc = "running"
    /\ turn = 1
    /\ calls = 0
    /\ button = FALSE
    /\ preTurn = store
    /\ changed = {}
    /\ executed = 0
    /\ erased = FALSE
    /\ undo = "none"
    /\ last = NoCall
    /\ repeat = FALSE
    /\ index \in {IndexOf(S, C) : S \in SUBSET SettingKeys, C \in SUBSET CommandKeys}
    /\ query = K_empty
    /\ limit = 1
    /\ results = << >>
    /\ lastRun = NoCall
    /\ LoopAtRest

SearchCall ==
    /\ \E keywords \in Queries, n \in 1 .. MaxLimit :
          \E r \in Search(index, keywords, n) :
             /\ query' = keywords
             /\ limit' = n
             /\ results' = r
    /\ UNCHANGED <<store, updatedSettings, ranCommands, calls, turnVars, updateVars,
                   index, lastRun, loopVars, textVars,
                   buildVars, validateVars, historyVars, overlapVars, resolveVars, catalogVars>>

NextSearch == SearchCall

SpecSearch == InitSearch /\ [][NextSearch]_vars

(***************************************************************************)
(* SpecRun: invocations of RunCommand on an index built from any catalog   *)
(* of settings and commands.                                               *)
(***************************************************************************)
RunCall ==
    /\ \E commandId \in RunKeys :
          \E commands \in Search(index, commandId, 1) :
          \E hasArgs \in BOOLEAN, cancelled \in BOOLEAN :
          \E outcome \in HostOutcomes(commands) \cup Faults :
             \E r \in {RunCommand_invoke(ranCommands, commandId, commands, hasArgs,
                                         cancelled, outcome, turn)} :
                /\ Len(r.ledger) <= MaxRan
                /\ ranCommands' = r.ledger
                /\ lastRun' = [tool |-> "runCommand", key |-> commandId,
                               command |-> IF Len(commands) > 0 THEN commands[1].key
                                           ELSE K_empty,
                               hasArgs |-> hasArgs, cancelled |-> cancelled,
                               outcome |-> outcome, kind |-> r.kind, exec |-> r.exec,
                               ledgerBefore |-> ranCommands]
    /\ UNCHANGED <<store, updatedSettings, calls, turnVars, updateVars, index, query,
                   limit, results, loopVars, textVars,
                   buildVars, validateVars, historyVars, overlapVars, resolveVars, catalogVars>>

NextRun == RunCall

SpecRun == InitSearch /\ [][NextRun]_vars

(***************************************************************************)
(* SpecSearchTool: invocations of the SearchConfigurations tool on an      *)
(* index built from any catalog of settings and commands.                  *)
(***************************************************************************)
\* The SearchConfigurations tool is invoked.
SearchToolCall ==
    /\ \E keywords \in Queries :
          \E searchResults \in Search(index, keywords, SearchToolLimit) :
          \E cancelled \in BOOLEAN :
             \E r \in {SearchConfigurations_invoke(keywords, searchResults, cancelled)} :
                lastRun' = [tool |-> "searchConfigurations", keywords |-> keywords,
                            cancelled |-> cancelled, kind |-> r.kind,
                            searched |-> r.searched, keys |-> r.keys]
    /\ UNCHANGED <<store, updatedSettings, ranCommands, calls, turnVars, updateVars, index,
                   query, limit, results, loopVars, textVars,
                   buildVars, validateVars, historyVars, overlapVars, resolveVars, catalogVars>>

NextSearchTool == SearchToolCall

SpecSearchTool == InitSearch /\ [][NextSearchTool]_vars

(***************************************************************************)
(* SpecPrepare: the host asks UpdateSettings to prepare an invocation, on   *)
(* an index built from any catalog of settings and commands.               *)
(***************************************************************************)
PrepareCall ==
    /\ \E n \in 0 .. MaxKeys : \E keys \in [1 .. n -> PrepareKeys] :
          /\ \A i, j \in 1 .. n : i # j => keys[i] # keys[j]
          /\ \E lookups \in [1 .. n -> UNION {Search(index, k, 1) : k \in PrepareKeys}] :
                /\ \A i \in 1 .. n : lookups[i] \in Search(index, keys[i], 1)
                /\ \E r \in {UpdateSettings_prepareToolInvocation(keys, lookups)} :
                      lastRun' = [tool |-> "prepareToolInvocation", keys |-> keys,
                                  prepared |-> r.prepared,
                                  confirmation |-> r.confirmation,
                                  described |-> r.described]
    /\ UNCHANGED <<store, updatedSettings, ranCommands, calls, turnVars, updateVars, index,
                   query, limit, results, loopVars, textVars,
                   buildVars, validateVars, historyVars, overlapVars, resolveVars, catalogVars>>

NextPrepare == PrepareCall

SpecPrepare == InitSearch /\ [][NextPrepare]_vars

(***************************************************************************)
(* SpecLoop: the while(true) loop of the chat participant handler.  The    *)
(* effects of the tools on the store and the ledgers are those of Spec;    *)
(* here a tool invocation is what the loop sees of it: its result.         *)
(***************************************************************************)
\* The handler is entered with `tools` registered in vscode.lm.tools.
InitLoopOn(tools) ==
    /\ store = [k \in SettingKeys |-> Prim(0)]
    /\ updatedSettings = << >>
    /\ ranCommands = << >>
    /\ pc = "running"
    /\ turn = 1
    /\ calls = 0
    /\ button = FALSE
    /\ preTurn = store
    /\ changed = {}
    /\ executed = 0
    /\ erased = FALSE
    /\ undo = "none"
    /\ last = NoCall
    /\ repeat = FALSE
    /\ index = FullIndex
    /\ query = K_empty
    /\ limit = 1
    /\ results = << >>
    /\ lastRun = NoCall
    /\ loopPc = "rendering"
    /\ registry = tools
    /\ toolCallRounds = << >>
    /\ toolCallResults = << >>
    /\ rendered = << >>
    /\ messages = << >>
    /\ invoked = << >>
    /\ requests = 0
    /\ responses = << >>
    /\ TextAtRest
    /\ BuildAtRest
    /\ ValidationAtRest
    /\ HistoryAtRest
    /\ OverlapAtRest
    /\ ResolveAtRest
    /\ CatalogAtRest

InitLoop == InitLoopOn(RegisteredTools)

frozenInLoop == <<store, updatedSettings, ranCommands, calls, turnVars, updateVars,
                  searchVars, textVars, buildVars, validateVars, historyVars, overlapVars, resolveVars, catalogVars>>

\* renderPrompt reaches the next ToolCallElement and awaits its render.
RenderToolCall ==
    /\ loopPc = "rendering"
    /\ Len(rendered) < Len(Flat(toolCallRounds))
    /\ LET toolCall == Flat(toolCallRounds)[Len(rendered) + 1]
       IN \E outcome \in OutcomesOf(toolCall.name) :
          \E e \in {ToolCallElement_render(toolCall, registry, toolCallResults, outcome)} :
             /\ rendered' = Append(rendered, e.message)
             /\ invoked' = IF e.invoked THEN Counted(invoked, toolCall.callId) ELSE invoked
             /\ loopPc' = IF e.threw THEN "failed" ELSE "rendering"
    /\ UNCHANGED <<registry, toolCallRounds, toolCallResults, messages, requests,
                   responses, frozenInLoop>>

\* renderPrompt has returned: the results its metadata carries are stored and
\* the request is sent.
SendRequest ==
    /\ loopPc = "rendering"
    /\ Len(rendered) = Len(Flat(toolCallRounds))
    /\ toolCallResults' = StoreResults(toolCallResults, rendered)
    /\ messages' = PromptMessages(toolCallRounds, rendered)
    /\ requests' = requests + 1
    /\ rendered' = << >>
    /\ loopPc' = "awaiting"
    /\ UNCHANGED <<registry, toolCallRounds, invoked, responses, frozenInLoop>>

\* A loop without the `if (toolCalls.length === 0) break`: every response is
\* recorded as a round and the prompt is rendered again.
ModelResponds_neverBreaking ==
    /\ loopPc = "awaiting"
    /\ Len(toolCallRounds) < MaxRounds
    /\ \E parts \in Responses :
          /\ responses' = Append(responses, [parts |-> parts, tools |-> registry])
          /\ toolCallRounds' = Append(toolCallRounds,
                ProcessResponseStream(parts, registry, (requests - 1) * MaxParts + 1))
          /\ loopPc' = "rendering"
    /\ UNCHANGED <<registry, toolCallResults, rendered, messages, invoked, requests,
                   frozenInLoop>>

\* A loop that puts the newest round first.
ModelResponds_prepending ==
    /\ loopPc = "awaiting"
    /\ \E parts \in Responses :
          LET toolCalls == ProcessResponseStream(parts, registry,
                                                 (requests - 1) * MaxParts + 1)
          IN /\ responses' = Append(responses, [parts |-> parts, tools |-> registry])
             /\ IF Len(toolCalls) = 0
                THEN loopPc' = "done" /\ UNCHANGED toolCallRounds
                ELSE /\ Len(toolCallRounds) < MaxRounds
                     /\ toolCallRounds' = <<toolCalls>> \o toolCallRounds
                     /\ loopPc' = "rendering"
    /\ UNCHANGED <<registry, toolCallResults, rendered, messages, invoked, requests,
                   frozenInLoop>>

\* A loop that ends the turn on any response.
ModelResponds_breakingAlways ==
    /\ loopPc = "awaiting"
    /\ \E parts \in Responses :
          responses' = Append(responses, [parts |-> parts, tools |-> registry])
    /\ loopPc' = "done"
    /\ UNCHANGED <<registry, toolCallRounds, toolCallResults, rendered, messages,
                   invoked, requests, frozenInLoop>>

\* The model's response has been streamed: the loop ends when it holds no
\* call of a registered tool, and records the round otherwise.
ModelResponds ==
    /\ loopPc = "awaiting"
    /\ \E parts \in Responses :
          LET toolCalls == ProcessResponseStream(parts, registry,
                                                 (requests - 1) * MaxParts + 1)
          IN /\ responses' = Append(responses, [parts |-> parts, tools |-> registry])
             /\ IF Len(toolCalls) = 0
                THEN loopPc' = "done" /\ UNCHANGED toolCallRounds
                ELSE /\ Len(toolCallRounds) < MaxRounds
                     /\ toolCallRounds' = Append(toolCallRounds, toolCalls)
                     /\ loopPc' = "rendering"
    /\ UNCHANGED <<registry, toolCallResults, rendered, messages, invoked, requests,
                   frozenInLoop>>

\* model.sendRequest or the response stream rejects.
RequestFails ==
    /\ loopPc = "awaiting"
    /\ loopPc' = "failed"
    /\ UNCHANGED <<registry, toolCallRounds, toolCallResults, rendered, messages,
                   invoked, requests, responses, frozenInLoop>>

\* The extension that registered the foreign tool disposes of it.
ToolUnregistered ==
    /\ loopPc \in {"rendering", "awaiting"}
    /\ "foreign" \in registry
    /\ registry' = registry \ {"foreign"}
    /\ UNCHANGED <<loopPc, toolCallRounds, toolCallResults, rendered, messages,
                   invoked, requests, responses, frozenInLoop>>

NextLoop ==
    \/ RenderToolCall
    \/ SendRequest
    \/ ModelResponds
    \/ RequestFails
    \/ ToolUnregistered

SpecLoop == InitLoop /\ [][NextLoop]_vars

\* The loop in a host where no other extension has registered a tool, under
\* the scheduling of the handler: an await whose promise is settled is
\* resumed, so renderPrompt goes on to the next element and to its end, and a
\* response that has arrived is processed.  Whether a request or a tool
\* invocation rejects is left to the environment.
InitLoopFair == InitLoopOn({"commander"})

NextLoopFair ==
    \/ RenderToolCall
    \/ SendRequest
    \/ ModelResponds
    \/ RequestFails

SpecLoopFair ==
    /\ InitLoopFair
    /\ [][NextLoopFair]_vars
    /\ WF_vars(RenderToolCall)
    /\ WF_vars(SendRequest)
    /\ WF_vars(ModelResponds)

(***************************************************************************)
(* SpecText: the text parts of one response stream pass through            *)
(* processResponseStream.                                                  *)
(***************************************************************************)
InitText == Init /\ store = [k \in SettingKeys |-> Prim(0)]

frozenInText == <<store, updatedSettings, ranCommands, calls, turnVars, updateVars,
                  searchVars, loopVars, buildVars, validateVars, historyVars, overlapVars, resolveVars, catalogVars>>

\* The stream yields a text part.
TextPart ==
    /\ ~ended
    /\ \E n \in 1 .. (MaxText - Len(streamed)) : \E value \in Fragments(n) :
          /\ \E st \in {ProcessTextPart([buffer |-> buffer, textResponse |-> textResponse,
                                          markdown |-> userText], value)} :
                /\ buffer' = st.buffer
                /\ textResponse' = st.textResponse
                /\ userText' = st.markdown
          /\ streamed' = streamed \o value
    /\ UNCHANGED <<ended, frozenInText>>

\* The stream ends: processResponseStream returns textResponse.
StreamEnds ==
    /\ ~ended
    /\ ended' = TRUE
    /\ UNCHANGED <<buffer, textResponse, userText, streamed, frozenInText>>

NextText == TextPart \/ StreamEnds

SpecText == InitText /\ [][NextText]_vars

(***************************************************************************)
(* SpecValidate: RunCommand invocations within successive user turns, with *)
(* the prompt RunCommand remembers from its last argument validation.      *)
(***************************************************************************)
\* The prompts of the requests.
Prompts == {"split the editor", "fold everything"}

\* The commands the model asks for: one with complex arguments, one without.
ValidateKeys == {K_setEditorLayout, K_fold}

InitValidate == InitSearch /\ index = FullIndex

\* The handler is entered: the ledger is cleared and
\* `chatContext.prompt = request.prompt`.
ValidateTurnStart ==
    /\ IF prompt = "none" THEN turn' = turn
       ELSE turn < MaxTurns /\ turn' = turn + 1
    /\ prompt' \in Prompts
    /\ ranCommands' = << >>
    /\ corrected' = FALSE
    /\ lastRun' = NoCall
    /\ UNCHANGED <<store, updatedSettings, pc, calls, button, preTurn, changed, executed,
                   erased, undo, updateVars, index, query, limit, results, loopVars,
                   textVars, buildVars, historyVars, overlapVars, resolveVars, catalogVars,
                   lastComplexPrompt>>

\* The loop invokes RunCommand.  The validation's verdicts ("parseError",
\* "validationThrows") are possible only when validateComplexArguments is
\* entered and goes past its prompt check.
ValidateRunCall ==
    /\ prompt # "none"
    /\ \E commandId \in ValidateKeys :
          \E commands \in Search(index, commandId, 1) :
          \E hasArgs \in BOOLEAN, cancelled \in BOOLEAN :
          \E outcome \in HostOutcomes(commands) \cup Faults :
             LET entered == /\ outcome # "lookupThrows"
                            /\ Len(commands) > 0
                            /\ ParseCanFail(commands[1], hasArgs)
                 runs == entered /\ ValidationRuns(lastComplexPrompt, prompt)
             IN /\ outcome \in {"parseError", "validationThrows"} => runs
                /\ \E r \in {RunCommand_invoke(ranCommands, commandId, commands, hasArgs,
                                               cancelled, outcome, turn)} :
                      /\ Len(r.ledger) <= MaxRan
                      /\ ranCommands' = r.ledger
                      /\ corrected' = (corrected \/ r.kind = "argumentError")
                      /\ lastRun' = [tool |-> "runCommand", key |-> commandId,
                                     hasArgs |-> hasArgs, cancelled |-> cancelled,
                                     outcome |-> outcome, kind |-> r.kind,
                                     exec |-> r.exec, ledgerBefore |-> ranCommands,
                                     correctedBefore |-> corrected]
                /\ lastComplexPrompt' = IF runs THEN prompt ELSE lastComplexPrompt
    /\ UNCHANGED <<store, updatedSettings, calls, turnVars, updateVars, index, query,
                   limit, results, loopVars, textVars, buildVars, historyVars,
                   overlapVars, resolveVars, catalogVars, prompt>>

NextValidate ==
    \/ ValidateTurnStart
    \/ ValidateRunCall

SpecValidate == InitValidate /\ [][NextValidate]_vars

(***************************************************************************)
(* SpecBuild: the memoized build of the index (Configurations.init), the   *)
(* change notifications that drop the memo, and the search calls that      *)
(* await a build.  The content of the source documents is a version        *)
(* number; an entry of the index carries the version it was derived from.  *)
(***************************************************************************)
\* What getSearchableSettings and getSearchableCommands derive from content
\* of version v, in the order addAll receives it.  Odd versions hold one more
\* setting.  The ids are as the code makes them: `settings:${key}` with the
\* setting's key, `command:${index}` with the command's position.
CatalogOf(v) ==
    (IF v % 2 = 1 THEN <<[id |-> "settings:b", version |-> v]>> ELSE << >>)
    \o <<[id |-> "settings:a", version |-> v], [id |-> "command:0", version |-> v]>>

Range(seq) == {seq[i] : i \in DOMAIN seq}

\* miniSearch.addAll(documents) from document i on: MiniSearch adds the
\* documents one by one and throws at the first whose id the index holds.
RECURSIVE AddAll(_, _, _)
AddAll(idx, docs, i) ==
    IF i > Len(docs) THEN [index |-> idx, threw |-> FALSE]
    ELSE IF \E d \in idx : d.id = docs[i].id THEN [index |-> idx, threw |-> TRUE]
    ELSE AddAll(idx \cup {docs[i]}, docs, i + 1)

\* Configurations.init up to its first await: without a memoized promise a
\* build starts, empties the index and is memoized.
Configurations_init(promise, bs, idx) ==
    IF promise # 0
    THEN [initPromise |-> promise, builds |-> bs, miniSearch |-> idx]
    ELSE [initPromise |-> Len(bs) + 1,
          builds |-> Append(bs, [phase |-> "reading", read |-> 0]),
          miniSearch |-> {}]

\* What a search call that awaited a build returns: it fails with the build,
\* and reads the index otherwise.
SearchOutcome(w, threw, idx) ==
    [since |-> w.since, first |-> w.first, ok |-> ~threw, index |-> idx]

InitBuild == Init /\ store = [k \in SettingKeys |-> Prim(0)]

frozenInBuild == <<store, updatedSettings, ranCommands, calls, turnVars, updateVars,
                   searchVars, loopVars, textVars, validateVars, historyVars, overlapVars, resolveVars, catalogVars>>

\* onDidChangeTextDocument fires for one of the source documents.
DocumentChanged ==
    /\ documents < MaxVersions
    /\ documents' = documents + 1
    /\ initPromise' = 0
    /\ UNCHANGED <<builds, miniSearch, waiting, searched, lastBuilt, frozenInBuild>>

\* Configurations.search is called: `await this.init()`.  On a settled
\* promise the call completes at once.
SearchCalled ==
    /\ initPromise # 0 \/ Len(builds) < MaxBuilds
    /\ \E r \in {Configurations_init(initPromise, builds, miniSearch)} :
          LET w == [build |-> r.initPromise, since |-> documents,
                    first |-> initPromise = 0]
              phase == r.builds[r.initPromise].phase
          IN /\ initPromise' = r.initPromise
             /\ builds' = r.builds
             /\ miniSearch' = r.miniSearch
             /\ IF phase \in {"done", "failed"}
                THEN /\ searched' = {SearchOutcome(w, phase = "failed", r.miniSearch)}
                     /\ UNCHANGED waiting
                ELSE /\ waiting' = waiting \cup {w}
                     /\ UNCHANGED searched
    /\ UNCHANGED <<documents, lastBuilt, frozenInBuild>>

\* A build has read the source documents.
BuildReads ==
    /\ \E b \in DOMAIN builds :
          /\ builds[b].phase = "reading"
          /\ builds' = [builds EXCEPT ![b] = [phase |-> "adding", read |-> documents]]
    /\ UNCHANGED <<documents, initPromise, miniSearch, waiting, searched, lastBuilt,
                   frozenInBuild>>

\* A build adds what it derived to the index and settles its promise; the
\* search calls that awaited it go on.
BuildAdds ==
    /\ \E b \in DOMAIN builds :
          /\ builds[b].phase = "adding"
          /\ \E r \in {AddAll(miniSearch, CatalogOf(builds[b].read), 1)} :
                /\ miniSearch' = r.index
                /\ builds' = [builds EXCEPT ![b].phase = IF r.threw THEN "failed" ELSE "done"]
                /\ lastBuilt' = [build |-> b, threw |-> r.threw, index |-> r.index]
                /\ searched' = {SearchOutcome(w, r.threw, r.index) :
                                   w \in {x \in waiting : x.build = b}}
                /\ waiting' = {x \in waiting : x.build # b}
    /\ UNCHANGED <<documents, initPromise, frozenInBuild>>

NextBuild ==
    \/ DocumentChanged
    \/ SearchCalled
    \/ BuildReads
    \/ BuildAdds

SpecBuild == InitBuild /\ [][NextBuild]_vars

(***************************************************************************)
(* SpecBuildFaulty: SpecBuild with source documents that can fail to open  *)
(* or to parse.                                                            *)
(***************************************************************************)
\* openTextDocument or JSON.parse throws in a build: the async function of
\* init rejects, and so does every search call that awaited it.
BuildFails ==
    /\ \E b \in DOMAIN builds :
          /\ builds[b].phase = "reading"
          /\ builds' = [builds EXCEPT ![b].phase = "failed"]
          /\ searched' = {SearchOutcome(w, TRUE, miniSearch) :
                             w \in {x \in waiting : x.build = b}}
          /\ waiting' = {x \in waiting : x.build # b}
    /\ UNCHANGED <<documents, initPromise, miniSearch, lastBuilt, frozenInBuild>>

NextBuildFaulty ==
    \/ DocumentChanged
    \/ SearchCalled
    \/ BuildReads
    \/ BuildAdds
    \/ BuildFails

SpecBuildFaulty == InitBuild /\ [][NextBuildFaulty]_vars

(***************************************************************************)
(* SpecResolve: resolveReferences (jsonSchema.ts) on the objects of a      *)
(* parsed schema document.  An object is the sequence of its own           *)
(* properties in insertion order; a property holds a string or a reference *)
(* to an object, so that two properties can hold the same object.  A       *)
(* reference string is a sequence of atoms: "#/definitions/A" is           *)
(* <<"#", "/", "definitions", "/", "A">>.                                  *)
(***************************************************************************)
R_A == <<"#", "/", "definitions", "/", "A">>
R_B == <<"#", "/", "definitions", "/", "B">>
R_missing == <<"#", "/", "definitions", "/", "C">>
R_external == <<"http", ":", "/", "/", "json", "/", "A">>
References == {R_A, R_B, R_missing, R_external}

StrProp(key, str) == [key |-> key, kind |-> "string", str |-> str, at |-> 0]
ObjProp(key, id) == [key |-> key, kind |-> "object", str |-> << >>, at |-> id]
Undefined == [key |-> "", kind |-> "undefined", str |-> << >>, at |-> 0]

\* Object.keys order of an object, and its property of a name.
KeysOf(o) == [i \in DOMAIN o |-> o[i].key]
HasOwnProperty(o, key) == \E i \in DOMAIN o : o[i].key = key
PropertyOf(o, key) == o[CHOOSE i \in DOMAIN o : o[i].key = key]

\* `delete o[key]`
Delete(o, key) == SelectSeq(o, LAMBDA p : p.key # key)

\* `o[prop.key] = value of prop`: an own property keeps its place, a new one
\* goes last.
Assign(o, prop) ==
    IF HasOwnProperty(o, prop.key)
    THEN [i \in DOMAIN o |-> IF o[i].key = prop.key THEN prop ELSE o[i]]
    ELSE Append(o, prop)

\* `for (const defKey in def) { schema[defKey] = def[defKey]; }` from property i
\* of def on: the values are copied, the objects they refer to are shared.
RECURSIVE AssignAll(_, _, _)
AssignAll(o, def, i) ==
    IF i > Len(def) THEN o ELSE AssignAll(Assign(o, def[i]), def, i + 1)

\* parseReference: the parts after the leading '#', or no parts for a string
\* that does not start with '#/'.
parseReference(ref) ==
    IF Len(ref) >= 2 /\ ref[1] = "#" /\ ref[2] = "/"
    THEN [parsed |-> TRUE, parts |-> Tail(SelectSeq(ref, LAMBDA a : a # "/"))]
    ELSE [parsed |-> FALSE, parts |-> << >>]

\* The loop of followReference from part i on, `current` being the value
\* reached: a part an object does not own, or a part of a string, ends the
\* walk with undefined.
RECURSIVE FollowParts(_, _, _, _)
FollowParts(heap, current, parts, i) ==
    IF i > Len(parts) THEN current
    ELSE IF current.kind = "object" /\ HasOwnProperty(heap[current.at], parts[i])
         THEN FollowParts(heap, PropertyOf(heap[current.at], parts[i]), parts, i + 1)
         ELSE Undefined

\* `value[key]`
Get(heap, value, key) ==
    IF value.kind = "object" /\ HasOwnProperty(heap[value.at], key)
    THEN PropertyOf(heap[value.at], key)
    ELSE Undefined

Throws == [key |-> "", kind |-> "throws", str |-> << >>, at |-> 0]

\* The followReference of the earlier revision (configurationSearch.ts): the
\* last part names a definition of $defs, and it throws when there is none.
followReference_throwing(heap, ref, root) ==
    LET defs == Get(heap, ObjProp("", root), "$defs")
        def == Get(heap, defs, ref[Len(ref)])
    IN IF def.kind = "undefined" THEN Throws ELSE def

\* followReference($ref, document), the document being object `root`.
followReference(heap, ref, root) ==
    LET parsedRef == parseReference(ref)
    IN IF ~parsedRef.parsed THEN Undefined
       ELSE FollowParts(heap, ObjProp("", root), parsedRef.parts, 1)

\* JSON.parse of a schema document: object 1 is the document, object 2 its
\* definitions table, objects 3 and 5 are the definitions A and B, each with
\* one property that holds a $ref.
DocumentWith(refOfA, refOfB) ==
    << <<ObjProp("definitions", 2)>>,
       <<ObjProp("A", 3), ObjProp("B", 5)>>,
       <<ObjProp("p", 4)>>,
       <<StrProp("$ref", refOfA)>>,
       <<StrProp("type", <<"string">>), ObjProp("q", 6)>>,
       <<StrProp("$ref", refOfB)>> >>

documentSchema == 1

Frame(heap, id, followedReferences) ==
    [schema |-> id, followedReferences |-> followedReferences,
     keys |-> KeysOf(heap[id]), pos |-> 1]

frozenInResolve == <<store, updatedSettings, ranCommands, calls, turnVars, updateVars,
                     searchVars, loopVars, textVars, buildVars, validateVars, historyVars,
                     overlapVars, catalogVars>>

InitResolve == Init /\ store = [k \in SettingKeys |-> Prim(0)]

\* The schema document is parsed.
DocumentParsed ==
    /\ objects = << >>
    /\ \E refOfA \in References, refOfB \in References :
          objects' = DocumentWith(refOfA, refOfB)
    /\ UNCHANGED <<frames, resolves, overflowed, frozenInResolve>>

\* resolveReferences(partialSchema, documentSchema) is called with a schema
\* of its own that holds a $ref: `checkAndReplaceRef(partialSchema, [])`.
ResolveCalled ==
    /\ objects # << >>
    /\ frames = << >>
    /\ ~overflowed
    /\ resolves < MaxResolves
    /\ \E ref \in References :
          LET heap == Append(objects, <<StrProp("$ref", ref)>>)
          IN /\ objects' = heap
             /\ frames' = <<Frame(heap, Len(heap), << >>)>>
    /\ resolves' = resolves + 1
    /\ UNCHANGED <<overflowed, frozenInResolve>>

\* A call of checkAndReplaceRef is made from the innermost running call,
\* which is left at `caller`: past MaxStack nested calls the engine throws
\* a RangeError, which no call catches.
Call(heap, caller, callee) ==
    IF Len(frames) < MaxStack
    THEN /\ frames' = Append([frames EXCEPT ![Len(frames)] = caller], callee)
         /\ objects' = heap
         /\ UNCHANGED overflowed
    ELSE /\ frames' = << >>
         /\ objects' = heap
         /\ overflowed' = TRUE

\* One step of the innermost running call of checkAndReplaceRef: its for-in
\* loop is over, or it handles the next key.
ResolveStep ==
    /\ frames # << >>
    /\ LET f == frames[Len(frames)]
           schema == objects[f.schema]
           next == [f EXCEPT !.pos = f.pos + 1]
           over == [f EXCEPT !.pos = Len(f.keys) + 1]
           goOn == /\ frames' = [frames EXCEPT ![Len(frames)] = next]
                   /\ UNCHANGED <<objects, overflowed>>
       IN IF f.pos > Len(f.keys)
          THEN /\ frames' = SubSeq(frames, 1, Len(frames) - 1)
               /\ UNCHANGED <<objects, overflowed>>
          ELSE IF ~HasOwnProperty(schema, f.keys[f.pos])
          THEN goOn
          ELSE LET prop == PropertyOf(schema, f.keys[f.pos])
               IN IF prop.key = "$ref" /\ prop.kind = "string"
                  THEN IF \E i \in DOMAIN f.followedReferences :
                               f.followedReferences[i] = prop.str
                       THEN goOn
                       ELSE LET def == followReference(objects, prop.str, documentSchema)
                                deleted == Delete(schema, "$ref")
                            IN IF def.kind # "object"
                               THEN /\ objects' = [objects EXCEPT ![f.schema] = deleted]
                                    /\ frames' = [frames EXCEPT ![Len(frames)] = next]
                                    /\ UNCHANGED overflowed
                               ELSE LET heap == [objects EXCEPT ![f.schema] =
                                                   AssignAll(deleted, objects[def.at], 1)]
                                    IN Call(heap, over,
                                            Frame(heap, f.schema,
                                                  Append(f.followedReferences, prop.str)))
                  ELSE IF prop.kind = "object"
                       THEN Call(objects, next, Frame(objects, prop.at, f.followedReferences))
                       ELSE goOn
    /\ UNCHANGED <<resolves, frozenInResolve>>

NextResolve ==
    \/ DocumentParsed
    \/ ResolveCalled
    \/ ResolveStep

SpecResolve == InitResolve /\ [][NextResolve]_vars

(***************************************************************************)
(* SpecSettings: getSearchableSettings on a parsed settings schema         *)
(* document.  The document is a heap of objects as in SpecResolve; an      *)
(* array of strings is a property whose `str` holds the items.  Values on  *)
(* a reference path are objects and strings.                               *)
(***************************************************************************)
ArrProp(key, items) == [key |-> key, kind |-> "array", str |-> items, at |-> 0]

S_def == <<"#", "/", "$defs", "/", "d1">>
S_missing == <<"#", "/", "$defs", "/", "d9">>
SettingReferences == {S_def, S_missing, R_external, R_A}

EnumValues == <<<<"on">>, <<"off">>, <<"auto">>, <<"never">>>>
EnumTexts == <<<<"enabled">>, << >>, <<"automatic">>, <<"disabled">>>>

RefShape(ref) == <<StrProp("$ref", ref)>>
NumberShape ==
    <<StrProp("markdownDescription", <<"font", " ", "size">>), StrProp("type", <<"number">>)>>

\* A string-enum property with k enum values and d enum descriptions; d = -1
\* is a property without enumDescriptions.
EnumShape(k, d) ==
    <<StrProp("description", <<"rulers">>), StrProp("type", <<"string">>),
      ArrProp("enum", SubSeq(EnumValues, 1, k))>>
    \o (IF d < 0 THEN << >> ELSE <<ArrProp("enumDescriptions", SubSeq(EnumTexts, 1, d))>>)

PropertyShapes ==
    {RefShape(ref) : ref \in SettingReferences}
    \cup {EnumShape(k, d) : k \in 0 .. MaxEnum, d \in -1 .. MaxEnum}
    \cup {NumberShape}

\* JSON.parse of the settings schema document: object 1 is the document,
\* object 2 its properties, object 3 its $defs with the one definition d1.
SettingsDocument(fontSize, rulers) ==
    << <<ObjProp("properties", 2), ObjProp("$defs", 3)>>,
       <<ObjProp("[markdown]", 4), ObjProp("editor.fontSize", 5), ObjProp("editor.rulers", 6)>>,
       <<ObjProp("d1", 7)>>,
       NumberShape,
       fontSize,
       rulers,
       EnumShape(1, 1) >>

\* `key.startsWith('[')` for the property names of the model.
StartsWithBracket(key) == key \in {"[markdown]"}

\* JavaScript's truthiness of a value.
Truthy(value) ==
    value.kind \in {"object", "array"} \/ (value.kind = "string" /\ value.str # << >>)

\* `a ?? b`
Coalesce(a, b) == IF a.kind = "undefined" THEN b ELSE a

\* enumDescriptions[index] in a template literal or a string concatenation.
ItemText(items, at) ==
    IF at + 1 \in DOMAIN items THEN items[at + 1] ELSE <<"undefined">>

\* `list.join('\n')` from item i on.
RECURSIVE JoinLines(_, _)
JoinLines(lines, i) ==
    IF i > Len(lines) THEN << >>
    ELSE lines[i] \o (IF i < Len(lines) THEN <<"\n">> ELSE << >>) \o JoinLines(lines, i + 1)

\* enumsDescription: one line per enum key; `enumKey + enumDescription ? a : b`
\* tests the concatenation.  `reads` lists the indexes of enumDescriptions it
\* reads.
enumsDescription(enumKeys, enumDescriptions) ==
    IF Len(enumKeys) = 0 THEN [text |-> << >>, reads |-> << >>]
    ELSE LET line(i) ==
                 IF enumKeys[i] \o ItemText(enumDescriptions, i - 1) # << >>
                 THEN <<":", " ">> \o ItemText(enumDescriptions, i - 1)
                 ELSE << >>
         IN [text |-> <<"Allowed Enums:", "\n">>
                       \o JoinLines([i \in DOMAIN enumKeys |-> line(i)], 1),
             reads |-> [i \in DOMAIN enumKeys |-> i - 1]]

\* The loop of getSearchableSettings from property i of `properties` on.
\* `acc.enums` lists the calls of enumsDescription it made.
RECURSIVE SettingsLoop(_, _, _, _)
SettingsLoop(heap, keys, i, acc) ==
    IF i > Len(keys) THEN acc
    ELSE IF StartsWithBracket(keys[i]) THEN SettingsLoop(heap, keys, i + 1, acc)
    ELSE LET own == Get(heap, Get(heap, ObjProp("", 1), "properties"), keys[i])
             property == IF Get(heap, own, "$ref").kind # "undefined"
                         THEN followReference(heap, Get(heap, own, "$ref").str, 1)
                         ELSE own
         IN IF property.kind = "throws" THEN [acc EXCEPT !.threw = TRUE]
            ELSE IF ~Truthy(property) THEN SettingsLoop(heap, keys, i + 1, acc)
            ELSE LET text == Coalesce(Get(heap, property, "markdownDescription"),
                                 Coalesce(Get(heap, property, "description"),
                                          StrProp("", << >>)))
                     type == Get(heap, property, "type")
                     enum == Get(heap, property, "enum")
                     isEnum == type.kind = "string" /\ type.str = <<"string">> /\ Truthy(enum)
                     texts == Coalesce(Get(heap, property, "enumDescriptions"),
                                  Coalesce(Get(heap, property, "markdownEnumDescriptions"),
                                           ArrProp("", << >>)))
                     documented == enumsDescription(enum.str, texts.str)
                     description == IF isEnum THEN text.str \o <<"\n">> \o documented.text
                                    ELSE text.str
                 IN SettingsLoop(heap, keys, i + 1,
                      [acc EXCEPT
                         !.entries = Append(@, [id |-> <<"settings:", keys[i]>>,
                                                key |-> keys[i],
                                                description |-> description,
                                                valueType |-> Coalesce(type,
                                                    StrProp("", <<"string">>)).str]),
                         !.enums = IF isEnum
                                   THEN Append(@, [key |-> keys[i],
                                                   k |-> Len(enum.str), d |-> Len(texts.str),
                                                   text |-> documented.text,
                                                   reads |-> documented.reads])
                                   ELSE @])

\* getSearchableSettings on the parsed document.
getSearchableSettings(heap) ==
    IF Get(heap, ObjProp("", 1), "properties").kind = "undefined"
    THEN [tool |-> "getSearchableSettings", threw |-> FALSE, entries |-> << >>,
          enums |-> << >>]
    ELSE SettingsLoop(heap, KeysOf(heap[Get(heap, ObjProp("", 1), "properties").at]), 1,
                      [tool |-> "getSearchableSettings", threw |-> FALSE,
                       entries |-> << >>, enums |-> << >>])

frozenInCatalog == <<store, updatedSettings, ranCommands, calls, turnVars, updateVars,
                     searchVars, loopVars, textVars, buildVars, validateVars, historyVars,
                     overlapVars, resolveVars>>

InitSettings == Init /\ store = [k \in SettingKeys |-> Prim(0)]

\* A build reads and parses the settings schema document and derives the
\* searchable settings; a behaviour holds one build.
GetSearchableSettings ==
    /\ searchableSettings = NoCall
    /\ \E fontSize \in PropertyShapes, rulers \in PropertyShapes :
          /\ settingsSchema' = SettingsDocument(fontSize, rulers)
          /\ searchableSettings' = getSearchableSettings(SettingsDocument(fontSize, rulers))
    /\ UNCHANGED <<keybindingsSchema, searchableCommands, frozenInCatalog>>

NextSettings == GetSearchableSettings

SpecSettings == InitSettings /\ [][NextSettings]_vars

(***************************************************************************)
(* SpecCommands: getSearchableCommands on a parsed keybindings schema.     *)
(* `enum` and `enumDescriptions` are the two lists of                      *)
(* definitions.commandNames; an item is a string or the JSON null.         *)
(***************************************************************************)
Str(str) == [kind |-> "string", str |-> str]
Null == [kind |-> "null", str |-> << >>]
NoItem == [kind |-> "undefined", str |-> << >>]

CommandItems == {Str(K_fold), Str(K_cursorUndo), Str(K_empty)}
DescriptionItems == {Str(<<"fold">>), Str(K_empty), Null}

\* `list?.[index]`
ItemAt(list, at) == IF at + 1 \in DOMAIN list THEN list[at + 1] ELSE NoItem

\* `!value` for an item.
Falsy(item) == item.kind \in {"null", "undefined"} \/ item.str = << >>

KeybindingsSchemas ==
    [enum : SeqsOver(CommandItems, MaxCommands),
     enumDescriptions : SeqsOver(DescriptionItems, MaxCommands),
     commandsWithArgs : {{}, {K_fold}}]

\* The loop of the earlier revision: it skips a description that is null
\* and nothing else.
RECURSIVE CommandsLoop_nullOnly(_, _, _)
CommandsLoop_nullOnly(schema, at, acc) ==
    IF at >= Len(schema.enumDescriptions) THEN acc
    ELSE LET commandDescription == ItemAt(schema.enumDescriptions, at)
             commandId == ItemAt(schema.enum, at)
         IN IF commandDescription.kind = "null" \/ commandId.str \in schema.commandsWithArgs
            THEN CommandsLoop_nullOnly(schema, at + 1, acc)
            ELSE CommandsLoop_nullOnly(schema, at + 1,
                   Append(acc, [id |-> <<"command:", at>>, key |-> commandId.str,
                                description |-> commandDescription.str]))

\* The loop of getSearchableCommands from index `at` on.
RECURSIVE CommandsLoop(_, _, _)
CommandsLoop(schema, at, acc) ==
    IF at >= Len(schema.enumDescriptions) THEN acc
    ELSE LET commandDescription == ItemAt(schema.enumDescriptions, at)
             commandId == ItemAt(schema.enum, at)
         IN IF Falsy(commandId) \/ Falsy(commandDescription)
               \/ commandId.str \in schema.commandsWithArgs
            THEN CommandsLoop(schema, at + 1, acc)
            ELSE CommandsLoop(schema, at + 1,
                   Append(acc, [id |-> <<"command:", at>>, key |-> commandId.str,
                                description |-> commandDescription.str]))

\* getSearchableCommands on the parsed schema.
getSearchableCommands(schema) ==
    [tool |-> "getSearchableCommands", entries |-> CommandsLoop(schema, 0, << >>)]

InitCommands == Init /\ store = [k \in SettingKeys |-> Prim(0)]

\* A build reads and parses the keybindings schema and derives the
\* searchable commands; a behaviour holds one build.
GetSearchableCommands ==
    /\ searchableCommands = NoCall
    /\ \E schema \in KeybindingsSchemas :
          /\ keybindingsSchema' = schema
          /\ searchableCommands' = getSearchableCommands(schema)
    /\ UNCHANGED <<settingsSchema, searchableSettings, frozenInCatalog>>

NextCommands == GetSearchableCommands

SpecCommands == InitCommands /\ [][NextCommands]_vars

(***************************************************************************)
(* Properties of Spec.                                                     *)
(***************************************************************************)
\* C1: undo round trip.  Once the undo command has run to completion, every
\* key UpdateSettings wrote during the turn holds the value it had when the
\* turn began.
C1_UndoRoundTrip ==
    (pc = "undone" /\ undo = "completed") =>
        \A k \in changed : store[k] = preTurn[k]

\* C2: when the turn is done, the Undo button was attached if and only if
\* UpdateSettings wrote at least one setting during the turn and RunCommand
\* ran no command during the turn.
C2_UndoButtonIff ==
    pc \in {"done", "undone"} => (button <=> (changed # {} /\ executed = 0))

\* A turn that changed a setting, ran no command and got the button.
C2_ButtonAttached ==
    pc = "done" /\ button /\ changed # {} /\ executed = 0

\* C3: the ledgers hold entries of the current turn only: whatever the undo
\* command or the button decision reads was written after the last handler
\* entry, which emptied both buffers.
C3_LedgersOfThisTurn ==
    /\ \A i \in DOMAIN updatedSettings : updatedSettings[i].turn = turn
    /\ \A i \in DOMAIN ranCommands : ranCommands[i].turn = turn

\* A second turn whose entry erased entries of the first and that recorded
\* entries of its own.
C3_SecondTurnRecorded ==
    turn = 2 /\ erased /\ pc = "done" /\ Len(updatedSettings) > 0

(***************************************************************************)
(* Properties of SpecUpdate.                                               *)
(***************************************************************************)
\* Structural equality of two JSON values: equal canonical serializations.
StructuralEq(a, b) == a = b

\* The last invocation ran the loop over a non-empty batch.
RanLoop == last.tool = "updateSettings" /\ ~last.cancelled /\ Len(last.batch) >= 1

\* C6: an invocation whose requested values all structurally equal the stored
\* values (arrays and objects included) persists no write, reports zero
\* updates and every key unchanged, and leaves the ledger as it was.
C6_EqualValuesNoWrite ==
    (RanLoop /\ \A i \in DOMAIN last.batch :
                   StructuralEq(last.storeBefore[last.batch[i].key], last.batch[i].value)) =>
        /\ last.writes = << >>
        /\ last.result.kind = "success"
        /\ last.result.updates = << >>
        /\ last.result.unchanged = SeqKeys(last.batch)
        /\ updatedSettings = last.ledgerBefore

\* C7: idempotence.  An invocation that repeats the mapping of its successful
\* predecessor writes nothing, appends nothing to the ledger and reports every
\* key unchanged.
C7_RepeatIsNoOp ==
    repeat =>
        /\ last.writes = << >>
        /\ updatedSettings = last.ledgerBefore
        /\ last.result.updates = << >>
        /\ last.result.unchanged = SeqKeys(last.batch)

\* C8: when the write of batch entry k is rejected, the keys from k on keep
\* the values they had before the call and are not among the call's writes,
\* the writes made for the entries before k are in the store, and the ledger
\* is the ledger before the call followed by one entry per write made (none
\* for k).
C8_FailureStopsBatch ==
    (last.tool = "updateSettings" /\ last.failed # 0) =>
        LET b == last.batch
            n == Len(last.ledgerBefore)
        IN /\ \A j \in last.failed .. Len(b) :
                 /\ store[b[j].key] = last.storeBefore[b[j].key]
                 /\ \A i \in DOMAIN last.writes : last.writes[i].key # b[j].key
           /\ \A i \in DOMAIN last.writes : store[last.writes[i].key] = last.writes[i].value
           /\ Len(updatedSettings) = n + Len(last.writes)
           /\ SubSeq(updatedSettings, 1, n) = last.ledgerBefore
           /\ \A i \in DOMAIN last.writes :
                 /\ updatedSettings[n + i].key = last.writes[i].key
                 /\ updatedSettings[n + i].newValue = last.writes[i].value

\* A batch whose second write was rejected after its first was persisted, on
\* a ledger that already held an entry.
C8_FailedAfterWrite ==
    /\ last.tool = "updateSettings"
    /\ last.failed = 2
    /\ Len(last.writes) = 1
    /\ Len(last.ledgerBefore) > 0

\* C9: the result of a batch that failed at entry k after other entries were
\* updated names the updates already applied and the failed key.
C9_PartialProgressDisclosed ==
    (last.tool = "updateSettings" /\ last.failed # 0 /\ Len(last.writes) > 0) =>
        /\ last.result.kind = "error"
        /\ last.result.failedKey = last.batch[last.failed].key
        /\ SeqKeys(last.result.updates) = SeqKeys(last.writes)

(***************************************************************************)
(* Properties of SpecRun and SpecSearch.                                   *)
(***************************************************************************)
IsCommandOfCatalog(key) == \E d \in index : d.type = "command" /\ d.key = key

\* C4: a RunCommand invocation with a non-empty key that is the identifier of
\* no command of the catalog, and whose lookup answers, returns the not-found
\* result, passes nothing to executeCommand and leaves the ranCommands ledger
\* as it was.
C4_UnknownCommandNotFound ==
    (lastRun.tool = "runCommand" /\ Len(lastRun.key) > 0
                                 /\ lastRun.outcome \notin Faults
                                 /\ ~IsCommandOfCatalog(lastRun.key)) =>
        /\ lastRun.kind = "notFound"
        /\ lastRun.exec = << >>
        /\ ranCommands = lastRun.ledgerBefore

\* C5: search(key, n) with n >= 1 for a key that an entry of the index has
\* returns exactly one entry, whose key is the query.
C5_ExactKeyQuery ==
    (\E d \in index : d.key = query) =>
        Len(results) = 1 /\ results[1].key = query

\* An exact query with a limit above one on an index that holds another entry
\* sharing a term with the query.
C5_ExactAmongRelated ==
    /\ query = K_fold
    /\ Searchable("setting", K_fontSize) \in index
    /\ limit > 1
    /\ Len(results) = 1

\* C14: no RunCommand invocation ends by throwing: whatever fails inside it
\* (the index lookup, the validation's model call, the command) comes back as
\* a result.
C14_FailuresReturnedAsText ==
    lastRun.tool = "runCommand" => lastRun.kind # "threw"

\* C15: SearchConfigurations invoked with keywords and a cancelled token
\* returns the Cancelled result without having searched the index.
C15_CancelledSearchDoesNotSearch ==
    (/\ lastRun.tool = "searchConfigurations"
     /\ lastRun.cancelled
     /\ Len(lastRun.keywords) > 0) =>
        (lastRun.kind = "cancelled" /\ ~lastRun.searched)

\* C16: RunCommand invoked for the key of a command of the index with a
\* cancelled token, and with collaborators that do not fail, returns a
\* cancelled result and passes nothing to executeCommand.
C16_CancelledRunDoesNotExecute ==
    (/\ lastRun.tool = "runCommand"
     /\ lastRun.cancelled
     /\ \E d \in index : d.key = lastRun.key /\ d.type = "command"
     /\ lastRun.outcome = "ok") =>
        (lastRun.kind = "cancelled" /\ lastRun.exec = << >>)

\* C32: every identifier a RunCommand invocation passes to executeCommand is
\* the key the tool call gave, or the focus command that goes before it.
C32_ExecutesRequestedKey ==
    lastRun.tool = "runCommand" =>
        \A i \in DOMAIN lastRun.exec :
            lastRun.exec[i] \in {lastRun.key, K_focusActiveEditorGroup}

\* C17: UpdateSettings invoked with a non-empty mapping and a cancelled token
\* returns the Cancelled result, writes nothing to the store and leaves the
\* updatedSettings ledger as it was.
C17_CancelledUpdateWritesNothing ==
    (last.tool = "updateSettings" /\ last.cancelled /\ Len(last.batch) > 0) =>
        /\ last.result.kind = "cancelled"
        /\ last.writes = << >>
        /\ store = last.storeBefore
        /\ updatedSettings = last.ledgerBefore

\* A cancelled call whose mapping asked for a value the store did not hold,
\* made when the ledger already held an entry.
C17_CancelledBeforeChange ==
    /\ last.tool = "updateSettings"
    /\ last.cancelled
    /\ Len(last.ledgerBefore) > 0
    /\ \E i \in DOMAIN last.batch :
          StrictNotEqual(last.storeBefore[last.batch[i].key], last.batch[i].value)

\* C18: the invocation prepared for a mapping carries a confirmation exactly
\* when one of the mapping's keys is the key of a restricted setting of the
\* catalog.
C18_ConfirmationIffRestricted ==
    lastRun.tool = "prepareToolInvocation" =>
        (lastRun.confirmation <=>
            \E i \in DOMAIN lastRun.keys :
                /\ lastRun.keys[i] \in RestrictedSettings
                /\ Searchable("setting", lastRun.keys[i]) \in index)

(***************************************************************************)
(* SpecHistory: the History element of the prompt.  context.history holds  *)
(* the turns of the conversation before the current one, oldest first: a   *)
(* ChatRequestTurn and a ChatResponseTurn per exchange.                    *)
(***************************************************************************)
\* `this.props.context.history.slice(0, 6)`
HistoryLimit == 6

\* What the result of a response turn carries: markdown parts only, or the
\* toolCallsMetadata of a turn that recorded rounds.
ResponseKinds == {"markdown", "toolCalls"}

\* The two turns an exchange leaves in context.history; n numbers the
\* exchanges from the oldest on.
ExchangeTurns(n, kind) ==
    <<[exchange |-> n, turn |-> "request"], [exchange |-> n, turn |-> kind]>>

\* History.render: one element per turn of history.slice(0, 6), a UserMessage
\* for a request turn, the ToolCalls of a response turn with recorded rounds,
\* an AssistantMessage of the markdown parts otherwise.
History_render(h) ==
    LET kept == SubSeq(h, 1, IF Len(h) < HistoryLimit THEN Len(h) ELSE HistoryLimit)
    IN [i \in DOMAIN kept |->
          [element |-> IF kept[i].turn = "request" THEN "UserMessage"
                       ELSE IF kept[i].turn = "toolCalls" THEN "ToolCalls"
                       ELSE "AssistantMessage",
           exchange |-> kept[i].exchange]]

InitHistory == Init

\* An exchange ends: the host appends its request turn and its response turn
\* to the history of the conversation.
HistoryTurnEnds ==
    /\ Len(history) + 2 <= MaxHistory
    /\ \E kind \in ResponseKinds :
          history' = history \o ExchangeTurns(Len(history) \div 2 + 1, kind)
    /\ UNCHANGED <<store, updatedSettings, ranCommands, calls, turnVars, updateVars,
                   searchVars, loopVars, textVars, buildVars, validateVars, overlapVars,
                   resolveVars, catalogVars, sent>>

\* renderPrompt renders the History element for a request of the next turn.
ComposeRequest ==
    /\ sent' = [history |-> history, elements |-> History_render(history)]
    /\ UNCHANGED <<store, updatedSettings, ranCommands, calls, turnVars, updateVars,
                   searchVars, loopVars, textVars, buildVars, validateVars, overlapVars,
                   resolveVars, catalogVars, history>>

NextHistory ==
    \/ HistoryTurnEnds
    \/ ComposeRequest

SpecHistory == InitHistory /\ [][NextHistory]_vars

(***************************************************************************)
(* Properties of SpecHistory.                                              *)
(***************************************************************************)
\* C30: when the history held more turns than the limit, the elements
\* rendered for the request are those of its last HistoryLimit turns, in
\* order.
C30_MostRecentTurnsSent ==
    Len(sent.history) > HistoryLimit =>
        /\ Len(sent.elements) = HistoryLimit
        /\ \A i \in 1 .. HistoryLimit :
              sent.elements[i].exchange =
                  sent.history[Len(sent.history) - HistoryLimit + i].exchange

(***************************************************************************)
(* SpecOverlap: the handler invocations of two chat sessions.  Every await *)
(* of a handler is a point where the other session's handler, or the undo  *)
(* command, can run; updatedSettings and ranCommands are the two arrays of *)
(* the extension module, shared by all of them.                            *)
(***************************************************************************)
InitOverlap == Init /\ store = [k \in SettingKeys |-> Prim(0)]

\* The mappings the model hands to UpdateSettings in these sessions: one
\* setting and a new value for it.
OverlapBatches == {b \in Batches : Len(b) = 1 /\ b[1].value = Prim(1)}

\* The entries a tool call appended to a ledger.
Appended(before, after) == SubSeq(after, Len(before) + 1, Len(after))

\* The handler is entered for a request of session s: both ledger buffers are
\* emptied.
OverlapTurnStart(s) ==
    /\ handlers[s].pc = "idle"
    /\ handlers' = [handlers EXCEPT ![s].pc = "running"]
    /\ updatedSettings' = << >>
    /\ ranCommands' = << >>
    /\ UNCHANGED <<store, calls, turnVars, updateVars, searchVars, loopVars, textVars,
                   buildVars, validateVars, historyVars, resolveVars, catalogVars>>

\* The loop of session s invokes the UpdateSettings tool.
OverlapUpdateSettings(s) ==
    /\ handlers[s].pc = "running"
    /\ \E batch \in OverlapBatches, cancelled \in BOOLEAN :
       \E failAt \in 0 .. (IF cancelled THEN 0 ELSE Len(batch)) :
          \E r \in {UpdateSettings_invoke(store, updatedSettings, batch, cancelled,
                                          failAt, s)} :
             /\ (failAt # 0 => r.acc.failed = failAt)
             /\ Len(r.acc.ledger) <= MaxLedger
             /\ store' = r.acc.store
             /\ updatedSettings' = r.acc.ledger
             /\ handlers' = [handlers EXCEPT ![s].own =
                               @ \o Appended(updatedSettings, r.acc.ledger)]
    /\ UNCHANGED <<ranCommands, calls, turnVars, updateVars, searchVars, loopVars,
                   textVars, buildVars, validateVars, historyVars, resolveVars, catalogVars>>

\* The loop of session s invokes the RunCommand tool.
OverlapRunCommand(s) ==
    /\ handlers[s].pc = "running"
    /\ \E commandId \in TurnRunKeys :
          \E commands \in Search(index, commandId, 1) :
          \E outcome \in HostOutcomes(commands) :
             \E r \in {RunCommand_invoke(ranCommands, commandId, commands, FALSE,
                                         FALSE, outcome, s)} :
                /\ Len(r.ledger) <= MaxRan
                /\ ranCommands' = r.ledger
                /\ handlers' = [handlers EXCEPT ![s].ownRan =
                                  @ \o Appended(ranCommands, r.ledger)]
    /\ UNCHANGED <<store, updatedSettings, calls, turnVars, updateVars, searchVars,
                   loopVars, textVars, buildVars, validateVars, historyVars,
                   resolveVars, catalogVars>>

\* The loop of session s has ended: the handler decides on the button from
\* the two ledgers as they are now.
OverlapTurnDone(s) ==
    /\ handlers[s].pc = "running"
    /\ handlers' = [handlers EXCEPT
                       ![s].pc = "done",
                       ![s].button = ShowUndoButton(updatedSettings, ranCommands),
                       ![s].seenUpdates = updatedSettings,
                       ![s].seenRan = ranCommands]
    /\ UNCHANGED <<store, updatedSettings, ranCommands, calls, turnVars, updateVars,
                   searchVars, loopVars, textVars, buildVars, validateVars, historyVars,
                   resolveVars, catalogVars>>

\* The user clicks the Undo button of the response of session s: the undo
\* command replays updatedSettings as it is now.
OverlapUndo(s) ==
    /\ handlers[s].pc = "done"
    /\ handlers[s].button
    /\ handlers[s].undo = "none"
    /\ \E failAt \in 0 .. Len(updatedSettings) :
          /\ store' = UndoLoop(updatedSettings, 1, failAt, store)
          /\ handlers' = [handlers EXCEPT
                             ![s].undo = IF failAt = 0 THEN "completed" ELSE "failed",
                             ![s].replayed = updatedSettings]
    /\ UNCHANGED <<updatedSettings, ranCommands, calls, turnVars, updateVars, searchVars,
                   loopVars, textVars, buildVars, validateVars, historyVars,
                   resolveVars, catalogVars>>

NextOverlap ==
    \E s \in Sessions :
        \/ OverlapTurnStart(s)
        \/ OverlapUpdateSettings(s)
        \/ OverlapRunCommand(s)
        \/ OverlapTurnDone(s)
        \/ OverlapUndo(s)

SpecOverlap == InitOverlap /\ [][NextOverlap]_vars

(***************************************************************************)
(* Properties of SpecOverlap.                                              *)
(***************************************************************************)
\* C31: the ledgers a turn's button decision reads hold the entries the
\* turn's own tools recorded, all of them and no others.
C31_LedgerOwnedByTurn ==
    \A s \in Sessions :
        handlers[s].pc = "done" =>
            /\ handlers[s].seenUpdates = handlers[s].own
            /\ handlers[s].seenRan = handlers[s].ownRan

\* C33: the undo started from the button of a turn's response writes back
\* the entries that turn recorded, and no entry of another turn.
C33_UndoRevertsOwnTurn ==
    \A s \in Sessions :
        handlers[s].undo = "completed" => handlers[s].replayed = handlers[s].own

(***************************************************************************)
(* SpecRunFull: invocations of RunCommand on the index of the whole        *)
(* catalog.                                                                *)
(***************************************************************************)
SpecRunFull == InitValidate /\ [][NextRun]_vars

(***************************************************************************)
(* Properties of SpecRunFull.                                              *)
(***************************************************************************)
\* The identifiers of the index that start with 'editor.' or are dot-free and
\* start with 'cursor' or 'editor'.
FocusIdentifiers == {K_fontSize, K_rulers, K_fold, K_cursorUndo}

C26_OneEntryPerExecutedCommand ==
    lastRun.tool = "runCommand" =>
        /\ lastRun.kind = "executed" <=>
              /\ lastRun.exec # << >>
              /\ lastRun.exec[Len(lastRun.exec)] = lastRun.command
              /\ lastRun.outcome # "commandThrows"
        /\ ranCommands =
              IF lastRun.kind = "executed"
              THEN Append(lastRun.ledgerBefore,
                          [key |-> lastRun.command, arguments |-> lastRun.hasArgs,
                           turn |-> turn])
              ELSE lastRun.ledgerBefore

\* A command threw after an earlier one had been recorded: the ledger still
\* holds the earlier entry only.
C26_ThrowAfterRecordedCommand ==
    /\ lastRun.tool = "runCommand"
    /\ lastRun.outcome = "commandThrows"
    /\ lastRun.kind = "executionError"
    /\ Len(lastRun.ledgerBefore) = 1
    /\ Len(ranCommands) = 1

(***************************************************************************)
(* Properties of SpecLoop.                                                 *)
(***************************************************************************)
\* C10: the request that is in flight holds, for every tool call of every
\* recorded round, a tool message with the call's id, placed after the
\* assistant message that lists the call.
C10_NoDanglingToolCall ==
    loopPc = "awaiting" =>
        \A r \in DOMAIN toolCallRounds : \A c \in DOMAIN toolCallRounds[r] :
            \E a, m \in DOMAIN messages :
                /\ a < m
                /\ messages[a] = AssistantMessage(toolCallRounds[r])
                /\ messages[m].role = "tool"
                /\ messages[m].toolCallId = toolCallRounds[r][c].callId

\* A request in flight that carries two rounds, among them a call whose tool
\* was gone when the prompt was rendered and a call that returned a result.
C10_TwoRoundsAnswered ==
    /\ loopPc = "awaiting"
    /\ Len(toolCallRounds) = 2
    /\ \E m \in DOMAIN messages :
          messages[m].role = "tool" /\ messages[m].content = "Tool not found"
    /\ \E m \in DOMAIN messages :
          messages[m].role = "tool" /\ messages[m].content = "result"

\* C13: when the first response of the turn holds no tool call, the turn has
\* sent exactly one request, has invoked no tool and is done.
C13_NoToolCallOneRequest ==
    (Len(responses) >= 1 /\ responses[1].parts = << >>) =>
        /\ requests = 1
        /\ invoked = << >>
        /\ loopPc = "done"

\* The first response came without a tool call.
C13_AnsweredAtOnce ==
    /\ Len(responses) = 1
    /\ responses[1].parts = << >>
    /\ loopPc = "done"
    /\ requests = 1

\* The call ids of the tool-call parts that named no registered tool when
\* their response was processed.
UnresolvedCalls ==
    UNION {{(r - 1) * MaxParts + i : i \in {j \in DOMAIN responses[r].parts :
                                              responses[r].parts[j] \notin responses[r].tools}} :
           r \in DOMAIN responses}

\* C19: a tool call that named no registered tool is never invoked, is in no
\* recorded round, and is in no message of a request: neither listed by an
\* assistant message nor answered by a tool message.
C19_UnresolvedCallDropped ==
    \A id \in UnresolvedCalls :
        /\ id \notin DOMAIN invoked
        /\ \A r \in DOMAIN toolCallRounds : \A c \in DOMAIN toolCallRounds[r] :
              toolCallRounds[r][c].callId # id
        /\ \A m \in DOMAIN messages :
              /\ messages[m].role = "tool" => messages[m].toolCallId # id
              /\ messages[m].role = "assistant" =>
                    \A c \in DOMAIN messages[m].toolCalls : messages[m].toolCalls[c] # id

\* A request in flight after a response that named an unregistered tool next
\* to a registered one, whose call has been invoked.
C19_DroppedNextToKept ==
    /\ loopPc = "awaiting"
    /\ requests = 2
    /\ UnresolvedCalls # {}
    /\ invoked # << >>

\* C20: every tool call the loop has invoked names a tool that carries the
\* 'commander' tag.
C20_OnlyTaggedToolsInvoked ==
    \A r \in DOMAIN toolCallRounds : \A c \in DOMAIN toolCallRounds[r] :
        toolCallRounds[r][c].callId \in DOMAIN invoked =>
            toolCallRounds[r][c].name \in OfferedTools(RegisteredTools)

(***************************************************************************)
(* Properties of SpecValidate.                                             *)
(***************************************************************************)
\* C24: within a turn a correction request is returned at most once; the call
\* that receives it passes nothing to executeCommand and leaves the ledger as
\* it was; a call made after it whose lookup answers reaches executeCommand
\* with the command.
C24_OneCorrectionPerTurn ==
    lastRun.tool = "runCommand" =>
        /\ lastRun.kind = "argumentError" =>
              /\ ~lastRun.correctedBefore
              /\ lastRun.exec = << >>
              /\ ranCommands = lastRun.ledgerBefore
        /\ (lastRun.correctedBefore /\ lastRun.outcome # "lookupThrows") =>
              /\ lastRun.kind \in {"executed", "executionError"}
              /\ lastRun.exec # << >>

\* The command with complex arguments is executed, with arguments, by a call
\* that follows a correction request of the same turn.
C24_ExecutedAfterCorrection ==
    /\ lastRun.tool = "runCommand"
    /\ lastRun.correctedBefore
    /\ lastRun.key = K_setEditorLayout
    /\ lastRun.hasArgs
    /\ lastRun.kind = "executed"

(***************************************************************************)
(* Properties of SpecBuild.                                                *)
(***************************************************************************)
\* C21: the first search call after a change notification completes
\* successfully, on an index that holds what the source documents held at
\* the notification or later.
C21_SearchSeesCurrentContent ==
    \A s \in searched :
        s.first =>
            /\ s.ok
            /\ \E v \in s.since .. MaxVersions : s.index = Range(CatalogOf(v))

\* C22: at most one build is running.
C22_OneBuildInFlight ==
    Cardinality({b \in DOMAIN builds : builds[b].phase \in {"reading", "adding"}}) <= 1

\* C23: the index a build leaves when it finishes holds exactly what this
\* build derived from the source documents.
C23_BuildReplacesIndex ==
    lastBuilt.build # 0 =>
        lastBuilt.index = Range(CatalogOf(builds[lastBuilt.build].read))

(***************************************************************************)
(* Properties of SpecBuildFaulty.                                          *)
(***************************************************************************)
\* C34: a search call that finds the memo on a build that has failed starts
\* a new build.
C34_SearchAfterFailureRebuilds ==
    [][(/\ initPromise # 0
        /\ builds[initPromise].phase = "failed"
        /\ SearchCalled) => Len(builds') = Len(builds) + 1]_vars

\* C27: no tool call of a recorded round is invoked more than once in the
\* turn: every composition of a request after the first invocation works
\* from the stored result.
C27_InvokedOnce == \A id \in DOMAIN invoked : invoked[id] <= 1

\* C35: when the loop has ended, the results returned as metadata are stored
\* under the call ids of the recorded rounds, one for every call and none
\* under another id.
C35_ResultForEveryRecordedCall ==
    loopPc = "done" =>
        DOMAIN toolCallResults =
            {Flat(toolCallRounds)[i].callId : i \in DOMAIN Flat(toolCallRounds)}

\* The assistant messages of a request, in the order of the request.
AssistantMessagesOf(msgs) ==
    LET IsAssistant(m) == m.role = "assistant"
    IN SelectSeq(msgs, IsAssistant)

\* C29: a step of the turn leaves the rounds as they are or adds one round
\* at the end, and the request that is in flight lists the rounds, one
\* assistant message per round, in the order in which they occurred.
C29_RoundsOnlyAppended ==
    /\ [][\/ toolCallRounds' = toolCallRounds
          \/ /\ Len(toolCallRounds') = Len(toolCallRounds) + 1
             /\ SubSeq(toolCallRounds', 1, Len(toolCallRounds)) = toolCallRounds]_vars
    /\ [](loopPc = "awaiting" =>
             AssistantMessagesOf(messages) =
                 [r \in DOMAIN toolCallRounds |->
                     [role |-> "assistant",
                      toolCalls |-> [c \in DOMAIN toolCallRounds[r] |->
                                        toolCallRounds[r][c].callId]]])

\* The request in flight carries two rounds.
C29_SecondRequestWithTwoRounds ==
    /\ loopPc = "awaiting"
    /\ Len(toolCallRounds) = 2
    /\ Len(AssistantMessagesOf(messages)) = 2
    /\ requests = 3

(***************************************************************************)
(* Properties of SpecLoopFair.                                             *)
(***************************************************************************)
\* C28: when no request and no tool invocation rejects, the turn reaches
\* done; and a turn is done only after a response that held no call of a
\* registered tool, however many rounds came before it.
C28_TurnReachesDone ==
    /\ <>(loopPc \in {"done", "failed"})
    /\ [](loopPc = "done" =>
             /\ Len(responses) = Len(toolCallRounds) + 1
             /\ \A i \in DOMAIN responses[Len(responses)].parts :
                   responses[Len(responses)].parts[i]
                       \notin responses[Len(responses)].tools)

\* A turn is done after as many rounds as the model's bound allows.
C28_DoneAfterRounds ==
    /\ loopPc = "done"
    /\ Len(toolCallRounds) = MaxRounds
    /\ Len(responses) = MaxRounds + 1

(***************************************************************************)
(* Properties of SpecText.                                                 *)
(***************************************************************************)
\* A text with every link replaced by the backticked key it was made from.
RECURSIVE Unlinked(_)
Unlinked(text) ==
    IF text = << >> THEN << >>
    ELSE (IF Head(text) = SettingLink THEN <<"tick", "S", "tick">>
          ELSE IF Head(text) = CommandLink THEN <<"tick", "C", "tick">>
          ELSE <<Head(text)>>) \o Unlinked(Tail(text))

\* A text with every backtick token, from left to right, replaced by what
\* renderConfigurationId makes of it.
RECURSIVE AllLinked(_)
AllLinked(text) ==
    LET match == BacktickMatch(text)
    IN IF match = <<0, 0>> THEN text
       ELSE SubSeq(text, 1, match[1] - 1)
            \o renderConfigurationId(SubSeq(text, match[1] + 1, match[2] - 1))
            \o AllLinked(SubSeq(text, match[2] + 1, Len(text)))

\* C11: when the stream has ended, the text recorded for history is the
\* concatenation of the streamed parts, and so is the text sent to the user
\* once its links are read as the backtick tokens they replaced.
C11_TextPreserved ==
    ended => (textResponse = streamed /\ Unlinked(userText) = streamed)

\* C12: when the stream has ended with nothing withheld, the text sent to the
\* user is the streamed text with every backtick token replaced by its
\* settings link, its keybindings link or itself, and the history text is
\* the streamed text as it came.
C12_EveryTokenRendered ==
    (ended /\ buffer = << >>) =>
        (userText = AllLinked(streamed) /\ textResponse = streamed)

\* C36: the text withheld after a text part is empty, or it is the start of
\* a backtick token: a backtick followed by characters that are neither
\* backtick nor whitespace, FlushLimit characters at most.
C36_WithheldTextIsOpenToken ==
    buffer = << >> \/
        /\ buffer[1] = "tick"
        /\ \A i \in 2 .. Len(buffer) : buffer[i] \notin {"tick", " "}
        /\ StrLength(buffer) <= FlushLimit


\* C37: resolveReferences terminates.  A call of checkAndReplaceRef never has
\* below it on the call stack a call for the same object with the same
\* followed references, reached through objects that hold no $ref: such
\* objects are never changed again, so the calls would nest without end.
C37_ResolveTerminates ==
    ~ \E i, j \in DOMAIN frames :
          /\ i < j
          /\ frames[i].schema = frames[j].schema
          /\ frames[i].followedReferences = frames[j].followedReferences
          /\ \A k \in i .. j : ~HasOwnProperty(objects[frames[k].schema], "$ref")


\* C38: a settings property whose $ref does not resolve is left out of what
\* getSearchableSettings returns, every other property of the document that
\* is not a language override is in it, and the function does not throw.
C38_UnresolvedRefSkipped ==
    searchableSettings.tool = "getSearchableSettings" =>
        /\ ~searchableSettings.threw
        /\ \A p \in {<<"editor.fontSize", 5>>, <<"editor.rulers", 6>>} :
              (\E i \in DOMAIN searchableSettings.entries :
                    searchableSettings.entries[i].key = p[1])
              <=> settingsSchema[p[2]] \notin
                     {<<StrProp("$ref", ref)>> : ref \in {S_missing, R_external, R_A}}

\* A document whose first setting holds a $ref to a definition that does not
\* exist, and whose second setting was ingested.
C38_UnresolvedNextToIngested ==
    /\ searchableSettings.tool = "getSearchableSettings"
    /\ settingsSchema[5] = <<StrProp("$ref", S_missing)>>
    /\ Len(searchableSettings.entries) = 1
    /\ searchableSettings.entries[1].key = "editor.rulers"

\* C39: for a string-enum setting with k enum values and d enum
\* descriptions, the description holds at most k value lines and no index of
\* the enum descriptions at or beyond min(k, d) is read.
C39_EnumReadsInRange ==
    searchableSettings.tool = "getSearchableSettings" =>
        \A c \in DOMAIN searchableSettings.enums :
            LET call == searchableSettings.enums[c]
            IN /\ Cardinality({i \in DOMAIN call.text : call.text[i] = "\n"}) <= call.k
               /\ \A r \in DOMAIN call.reads :
                     call.reads[r] < call.k /\ call.reads[r] < call.d


\* C40: every command getSearchableCommands hands to the index has, at its
\* position of the description list, a description that is a non-empty
\* string, whatever the lengths of the two lists.
C40_IndexedCommandsDescribed ==
    searchableCommands.tool = "getSearchableCommands" =>
        \A i \in DOMAIN searchableCommands.entries :
            LET at == searchableCommands.entries[i].id[2]
            IN /\ at + 1 \in DOMAIN keybindingsSchema.enumDescriptions
               /\ keybindingsSchema.enumDescriptions[at + 1].kind = "string"
               /\ keybindingsSchema.enumDescriptions[at + 1].str # << >>
               /\ searchableCommands.entries[i].description # << >>

\* Lists of different lengths, a command with an empty description among
\* them, and one command that was indexed.
C40_GapSkippedCommandIndexed ==
    /\ searchableCommands.tool = "getSearchableCommands"
    /\ Len(keybindingsSchema.enum) # Len(keybindingsSchema.enumDescriptions)
    /\ \E i \in DOMAIN keybindingsSchema.enumDescriptions :
          /\ keybindingsSchema.enumDescriptions[i].str = << >>
          /\ i \in DOMAIN keybindingsSchema.enum
          /\ keybindingsSchema.enum[i].str # << >>
    /\ Len(searchableCommands.entries) = 1

====
